---- MODULE Spec2Model ----
(***************************************************************************)
(* Model of the track editor panel (multi-track field reconciliation and  *)
(* edit/commit) and of the cover-art lookup caches of the chant front-end. *)
(*                                                                         *)
(* JavaScript values are tagged records: Null, Undefined, NaN, S(chars),   *)
(* N(int), L(list of strings).  A string is a sequence of one-character    *)
(* strings, so that split, join, parseInt and the validators' regular      *)
(* expressions are computed character by character.                        *)
(***************************************************************************)
EXTENDS Integers, Sequences, FiniteSets, TLC

VARIABLES
    \* ---- TrackEditorPanel: props and React state ----
    trackIds,        \* prop: the selected ids, in order
    tracks,          \* useState<TrackRow[]>
    loading,         \* useState(true)
    saving,          \* useState(false)
    saved,           \* useState(false)
    editState,       \* useState<EditState | null>
    errors,          \* useState<Partial<Record<string,string>>>: set of keys with a message
    extraTags,       \* useState<ExtraTag[]>
    extraTagErrors,  \* useState<Record<string,string>>: frame id -> message ("ok" = "")
    langCustom,      \* LangPicker useState(custom), one per language field
    \* ---- asynchronous work in flight ----
    loads,           \* load() calls that have not finished
    saves,           \* save() calls that have not finished
    timers,          \* pending setTimeout(() => setSaved(false), 1500) callbacks
    \* ---- backend (behind the commands layer) ----
    db,              \* id -> TrackRow
    dbExtra,         \* id -> ExtraTag[]
    \* ---- history of the calls the panel dispatched, and bounds ----
    calls,           \* sequence of commands dispatched by save()
    lastEvent,       \* the last setField call, discard or completion of an asynchronous call
    opsLeft,         \* user operations the run may still make (bound of the model)
    nLoads, nSaves,  \* load() and save() calls started so far
    \* ---- cover-art caches (useCoverArt hooks) ----
    coverCache,      \* cache name -> (key -> resolved value)
    pending,         \* cache name -> (key -> promise): the in-flight map
    fetches,         \* cache name -> the promises created, one per backend fetch
    callers,         \* hook instances, in the order they were mounted
    \* ---- inputs and result of the pure functions ----
    fnTracks, fnField, fnResult,
    fnInput,         \* argument of parseTrackDisc (a text) or of the artist round trip (a list)
    \* ---- routes/table: the Table component ----
    selectedIds,          \* useState<Set<number>>
    lastClickedIndexRef,  \* useRef<number | null>: index of a row in sortedRows
    sorting,              \* useState<SortingState>: "none" or "desc"
    tableLog              \* the last operation on the table, and the row last clicked plainly or with ctrl

panelVars == <<trackIds, tracks, loading, saving, saved, editState, errors,
               extraTags, extraTagErrors, langCustom, loads, saves, timers,
               db, dbExtra, calls, lastEvent, opsLeft, nLoads, nSaves>>
cacheVars == <<coverCache, pending, fetches, callers>>
fnVars    == <<fnTracks, fnField, fnResult, fnInput>>
tableVars == <<selectedIds, lastClickedIndexRef, sorting, tableLog>>
vars      == <<panelVars, cacheVars, fnVars, tableVars>>

(***************************************************************************)
(* JavaScript values                                                       *)
(***************************************************************************)
Null      == [t |-> "null"]
Undefined == [t |-> "undefined"]
NaN       == [t |-> "nan"]
S(s)      == [t |-> "str", v |-> s]
N(n)      == [t |-> "num", v |-> n]
L(l)      == [t |-> "list", v |-> l]

\* !!x
Truthy(x) ==
    CASE x.t = "null"      -> FALSE
      [] x.t = "undefined" -> FALSE
      [] x.t = "nan"       -> FALSE
      [] x.t = "str"       -> x.v # <<>>
      [] x.t = "num"       -> x.v # 0
      [] OTHER             -> TRUE

\* x || y
OrElse(x, y) == IF Truthy(x) THEN x ELSE y

\* x ?? y
Coalesce(x, y) == IF x.t \in {"null", "undefined"} THEN y ELSE x

\* x != null
NotNullish(x) == x.t \notin {"null", "undefined"}

Digits == <<"0", "1", "2", "3", "4", "5", "6", "7", "8", "9">>
DigitSet == {Digits[i] : i \in 1..10}
LowerSet == {"a", "b", "c", "d", "e", "f", "g", "h", "i", "j", "k", "l", "m",
             "n", "o", "p", "q", "r", "s", "t", "u", "v", "w", "x", "y", "z"}
UpperSet == {"A", "B", "C", "D", "E", "F", "G", "H", "I", "J", "K", "L", "M",
             "N", "O", "P", "Q", "R", "S", "T", "U", "V", "W", "X", "Y", "Z"}
DigitVal(c) == (CHOOSE i \in 1..10 : Digits[i] = c) - 1

\* String(n) for an integer n >= 0
RECURSIVE NumToStr(_)
NumToStr(n) == IF n < 10 THEN <<Digits[n + 1]>>
               ELSE NumToStr(n \div 10) \o <<Digits[(n % 10) + 1]>>

\* value of a string of digits
RECURSIVE DigitsVal(_)
DigitsVal(s) == IF s = <<>> THEN 0
                ELSE 10 * DigitsVal(SubSeq(s, 1, Len(s) - 1)) + DigitVal(s[Len(s)])

\* the longest prefix of s made of digits
RECURSIVE DigitPrefix(_)
DigitPrefix(s) == IF s = <<>> \/ s[1] \notin DigitSet THEN <<>>
                  ELSE <<s[1]>> \o DigitPrefix(Tail(s))

\* s.trimStart()
RECURSIVE TrimStart(_)
TrimStart(s) == IF s # <<>> /\ s[1] = " " THEN TrimStart(Tail(s)) ELSE s

\* s.trimEnd()
RECURSIVE TrimEnd(_)
TrimEnd(s) == IF s # <<>> /\ s[Len(s)] = " "
              THEN TrimEnd(SubSeq(s, 1, Len(s) - 1)) ELSE s

\* s.trim()
Trim(s) == TrimEnd(TrimStart(s))

\* parseInt(x) for x a string or undefined: leading white space skipped, an
\* optional sign, then the longest run of digits; NaN when there is none.
parseInt(x) ==
    IF x.t # "str" THEN NaN
    ELSE LET s0   == TrimStart(x.v)
             neg  == s0 # <<>> /\ s0[1] = "-"
             s1   == IF s0 # <<>> /\ s0[1] \in {"-", "+"} THEN Tail(s0) ELSE s0
             digs == DigitPrefix(s1)
         IN  IF digs = <<>> THEN NaN
             ELSE N(IF neg THEN 0 - DigitsVal(digs) ELSE DigitsVal(digs))

\* does sep occur in s at position i
MatchAt(s, sep, i) ==
    /\ i + Len(sep) - 1 <= Len(s)
    /\ SubSeq(s, i, i + Len(sep) - 1) = sep

\* s.split(sep), sep non-empty: the list of the pieces
RECURSIVE SplitFrom(_, _, _, _)
SplitFrom(s, sep, i, cur) ==
    IF i > Len(s) THEN <<cur>>
    ELSE IF MatchAt(s, sep, i)
         THEN <<cur>> \o SplitFrom(s, sep, i + Len(sep), <<>>)
         ELSE SplitFrom(s, sep, i + 1, Append(cur, s[i]))
Split(s, sep) == SplitFrom(s, sep, 1, <<>>)

\* list.join(sep)
RECURSIVE Join(_, _)
Join(l, sep) == IF l = <<>> THEN <<>>
                ELSE IF Len(l) = 1 THEN l[1]
                ELSE l[1] \o sep \o Join(Tail(l), sep)

\* list.filter(Boolean) over a list of strings
RECURSIVE FilterNonEmpty(_)
FilterNonEmpty(l) == IF l = <<>> THEN <<>>
                     ELSE IF l[1] = <<>> THEN FilterNonEmpty(Tail(l))
                     ELSE <<l[1]>> \o FilterNonEmpty(Tail(l))

ArtistSep == <<" ", "/", " ">>

Range(f) == {f[i] : i \in DOMAIN f}

(***************************************************************************)
(* Field State                                                             *)
(***************************************************************************)
Uniform(v)    == [kind |-> "uniform", value |-> v]
Divergent(vs) == [kind |-> "divergent", values |-> vs]
Edited(v)     == [kind |-> "edited", value |-> v]

displayValue(fs) == IF fs.kind = "divergent" THEN Null ELSE fs.value

(***************************************************************************)
(* EditState                                                               *)
(***************************************************************************)
Fields == {"title", "artistNames", "albumTitle", "albumArtist", "composer",
           "year", "genre", "trackNumber", "discNumber", "bpm", "comment",
           "commentLang", "lyrics", "lyricsLang"}

\* t.artistName ? t.artistName.split(" / ").map(s => s.trim()).filter(Boolean) : []
ExtractArtistNames(t) ==
    IF Truthy(t.artistName)
    THEN LET parts == Split(t.artistName.v, ArtistSep)
         IN  L(FilterNonEmpty([i \in 1..Len(parts) |-> Trim(parts[i])]))
    ELSE L(<<>>)

\* n == null ? null : total != null ? `${n}/${total}` : String(n)
ExtractNumTotal(num, total) ==
    IF ~NotNullish(num) THEN Null
    ELSE IF NotNullish(total)
         THEN S(NumToStr(num.v) \o <<"/">> \o NumToStr(total.v))
         ELSE S(NumToStr(num.v))

\* x != null ? String(x) : null
ExtractNum(x) == IF NotNullish(x) THEN S(NumToStr(x.v)) ELSE Null

\* the projection (extract) buildEditState passes to computeField for a field
Extract(f, t) ==
    CASE f = "title"       -> t.title
      [] f = "artistNames" -> ExtractArtistNames(t)
      [] f = "year"        -> ExtractNum(t.year)
      [] f = "bpm"         -> ExtractNum(t.bpm)
      [] f = "trackNumber" -> ExtractNumTotal(t.trackNumber, t.trackTotal)
      [] f = "discNumber"  -> ExtractNumTotal(t.discNumber, t.discTotal)
      [] OTHER             -> Coalesce(t[f], Null)

\* the equality (eq) buildEditState passes to computeField for a field:
\* (a, b) => a.join(",") === b.join(",") for artistNames, a === b otherwise
FieldEq(f, a, b) ==
    IF f = "artistNames" THEN Join(a.v, <<",">>) = Join(b.v, <<",">>)
    ELSE a = b

\* computeField(tracks, extract, eq), with extract and eq those of field f
computeField(trks, f) ==
    LET values == [i \in 1..Len(trks) |-> Extract(f, trks[i])]
    IN  IF Len(trks) = 0 THEN Uniform(Undefined)
        ELSE IF \A i \in 1..Len(values) : FieldEq(f, values[i], values[1])
             THEN Uniform(values[1])
             ELSE Divergent(values)

\* mutant of buildEditState: a field that is edited stays as it is
buildEditStateKeepsEdits(trks) ==
    [f \in Fields |->
        IF editState # Null /\ editState[f].kind = "edited" THEN editState[f]
        ELSE computeField(trks, f)]

\* mutant of buildEditState: only the first record is reconciled
buildEditStateOfFirst(trks) ==
    [f \in Fields |-> computeField(IF trks = <<>> THEN trks ELSE <<trks[1]>>, f)]

buildEditState(trks) == [f \in Fields |-> computeField(trks, f)]

(***************************************************************************)
(* Validators (lib/validators)                                             *)
(***************************************************************************)
AllIn(s, set) == \A i \in 1..Len(s) : s[i] \in set

\* /^\d+$/
IsDigits(s) == s # <<>> /\ AllIn(s, DigitSet)

\* /^\d+(\/\d+)?$/
IsNumOrNumTotal(s) ==
    \/ IsDigits(s)
    \/ \E i \in 1..Len(s) :
          /\ s[i] = "/"
          /\ IsDigits(SubSeq(s, 1, i - 1))
          /\ IsDigits(SubSeq(s, i + 1, Len(s)))

\* /^\d{4}$/.test(v) && +v >= 1000 && +v <= 2099
IsYear(s) == Len(s) = 4 /\ AllIn(s, DigitSet)
             /\ DigitsVal(s) >= 1000 /\ DigitsVal(s) <= 2099

\* /^[a-z]{3}$/
IsLang(s) == Len(s) = 3 /\ AllIn(s, LowerSet)

\* /^[A-G][b#]?m?$/
IsKey(s) ==
    /\ Len(s) >= 1
    /\ s[1] \in {"A", "B", "C", "D", "E", "F", "G"}
    /\ LET r == Tail(s)
       IN  r \in {<<>>, <<"b">>, <<"#">>, <<"m">>, <<"b", "m">>, <<"#", "m">>}

\* /^[A-Z]{2}[A-Z0-9]{3}\d{7}$/
IsISRC(s) ==
    /\ Len(s) = 12
    /\ AllIn(SubSeq(s, 1, 2), UpperSet)
    /\ AllIn(SubSeq(s, 3, 5), UpperSet \cup DigitSet)
    /\ AllIn(SubSeq(s, 6, 12), DigitSet)

ValidatorKeys == {"bpm", "year", "trackNumber", "discNumber", "commentLang",
                  "lyricsLang", "TKEY", "TSRC"}

NoError == "<none>"

\* FIELD_VALIDATORS[key](v): the message, NoError for null (valid)
FIELD_VALIDATORS(key, v) ==
    CASE key = "bpm"         -> IF IsDigits(v) THEN NoError ELSE "Must be a non-negative integer"
      [] key = "year"        -> IF IsYear(v) THEN NoError ELSE "4-digit year (1000-2099)"
      [] key = "trackNumber" -> IF IsNumOrNumTotal(v) THEN NoError ELSE "Must be N or N/Total"
      [] key = "discNumber"  -> IF IsNumOrNumTotal(v) THEN NoError ELSE "Must be N or N/Total"
      [] key = "commentLang" -> IF IsLang(v) THEN NoError ELSE "3 lowercase letters (ISO 639-2)"
      [] key = "lyricsLang"  -> IF IsLang(v) THEN NoError ELSE "3 lowercase letters (ISO 639-2)"
      [] key = "TKEY"        -> IF IsKey(v) THEN NoError ELSE "Invalid musical key (e.g. Am, C#, Db)"
      [] key = "TSRC"        -> IF IsISRC(v) THEN NoError ELSE "Invalid ISRC"

(***************************************************************************)
(* JavaScript objects used as maps: a set of entries, one per key          *)
(***************************************************************************)
Keys(m) == {e.key : e \in m}
MapSet(m, k, x) == {e \in m : e.key # k} \cup {[key |-> k, val |-> x]}
MapDel(m, k) == {e \in m : e.key # k}
MapGet(m, k) == (CHOOSE e \in m : e.key = k).val

(***************************************************************************)
(* The update input built by save()                                        *)
(***************************************************************************)
parseTrackDisc(val) ==
    IF ~Truthy(val) THEN [num |-> Null, total |-> Null]
    ELSE LET parts == Split(val.v, <<"/">>)
             p1    == IF Len(parts) >= 2 THEN S(parts[2]) ELSE Undefined
         IN  [ num   |-> OrElse(parseInt(S(parts[1])), Null),
               total |-> IF Truthy(p1) THEN OrElse(parseInt(p1), Null) ELSE Null ]

\* mutant of TitleEntry: an edited title that is empty is left out of the input
TitleEntryUnlessEmpty(es) ==
    IF es.title.kind = "edited" /\ Truthy(es.title.value)
    THEN {[key |-> "title", val |-> es.title.value]} ELSE {}

\* if (es.title.kind === "edited") input.title = es.title.value || null
TitleEntry(es) ==
    IF es.title.kind = "edited"
    THEN {[key |-> "title", val |-> OrElse(es.title.value, Null)]} ELSE {}

\* input.artistName = value.length > 0 ? value.join(" / ") : ""
ArtistEntry(es) ==
    IF es.artistNames.kind = "edited"
    THEN {[key |-> "artistName",
           val |-> IF Len(es.artistNames.value.v) > 0
                   THEN S(Join(es.artistNames.value.v, ArtistSep))
                   ELSE S(<<>>)]}
    ELSE {}

\* input.f = es.f.value ?? "" for the text fields
TextEntries(es) ==
    UNION { IF es[f].kind = "edited"
              THEN {[key |-> f, val |-> Coalesce(es[f].value, S(<<>>))]} ELSE {}
            : f \in {"albumTitle", "albumArtist", "composer", "genre", "comment",
                     "commentLang", "lyrics", "lyricsLang"} }

\* input.f = es.f.value ? parseInt(es.f.value) : null for year and bpm
NumberEntries(es) ==
    UNION { IF es[f].kind = "edited"
              THEN {[key |-> f,
                     val |-> IF Truthy(es[f].value) THEN parseInt(es[f].value) ELSE Null]}
              ELSE {}
            : f \in {"year", "bpm"} }

\* const { num, total } = parseTrackDisc(value); input.fNumber = num; input.fTotal = total
TrackDiscEntries(es) ==
    (IF es.trackNumber.kind = "edited"
       THEN LET r == parseTrackDisc(es.trackNumber.value)
            IN  {[key |-> "trackNumber", val |-> r.num],
                 [key |-> "trackTotal", val |-> r.total]}
       ELSE {})
    \cup
    (IF es.discNumber.kind = "edited"
       THEN LET r == parseTrackDisc(es.discNumber.value)
            IN  {[key |-> "discNumber", val |-> r.num],
                 [key |-> "discTotal", val |-> r.total]}
       ELSE {})

\* save(), "Build the input - only include edited fields"
SaveInput(es) ==
    TitleEntry(es) \cup ArtistEntry(es) \cup TextEntries(es) \cup NumberEntries(es)
        \cup TrackDiscEntries(es)

\* the keys of the input that an edited field contributes
InputKeys(f) ==
    CASE f = "artistNames" -> {"artistName"}
      [] f = "trackNumber" -> {"trackNumber", "trackTotal"}
      [] f = "discNumber"  -> {"discNumber", "discTotal"}
      [] OTHER             -> {f}

(***************************************************************************)
(* Backend behind the commands layer                                       *)
(***************************************************************************)
\* update_track / batch_update_tracks on one row: a key that is absent or null
\* leaves the column alone, an empty string clears it, any other value is stored
ApplyPatch(t, input) ==
    [k \in DOMAIN t |->
        IF k \notin Keys(input) THEN t[k]
        ELSE LET x == MapGet(input, k)
             IN  IF x = Null \/ x = NaN THEN t[k]
                 ELSE IF x = S(<<>>) THEN Null
                 ELSE x]

(***************************************************************************)
(* Bounds of the model and the inputs the user and the backend supply      *)
(***************************************************************************)
\* user operations in one run of the one-selection life cycle
MaxOps == 4
\* user operations in one run of the all-fields session
MaxFieldOps == 2
\* selection changes and title edits in one run of the concurrent loads
MaxLoadOps == 2

Ids == {1, 2}
Selections == {<<1>>, <<2>>, <<1, 2>>}

Track1 ==
    [ id |-> 1, title |-> S(<<"A">>), artistName |-> S(<<"a", " ", "/", " ", "b">>),
      albumTitle |-> S(<<"L">>), albumArtist |-> Null, composer |-> Null,
      year |-> N(2020), genre |-> S(<<"J">>), trackNumber |-> N(5),
      trackTotal |-> N(12), discNumber |-> Null, discTotal |-> Null,
      bpm |-> Null, comment |-> Null, commentLang |-> Null, lyrics |-> Null,
      lyricsLang |-> S(<<"e", "n", "g">>) ]
Track2 ==
    [ id |-> 2, title |-> S(<<"B">>), artistName |-> S(<<"a">>),
      albumTitle |-> S(<<"L">>), albumArtist |-> Null, composer |-> Null,
      year |-> N(2020), genre |-> S(<<"J">>), trackNumber |-> N(6),
      trackTotal |-> N(12), discNumber |-> Null, discTotal |-> Null,
      bpm |-> N(90), comment |-> Null, commentLang |-> Null, lyrics |-> Null,
      lyricsLang |-> S(<<"l", "a">>) ]

InitDb == [i \in Ids |-> IF i = 1 THEN Track1 ELSE Track2]
InitDbExtra ==
    [i \in Ids |-> IF i = 1 THEN <<[frame_id |-> "TKEY", value |-> <<"A", "m">>]>>
                   ELSE <<[frame_id |-> "TKEY", value |-> <<"H">>]>>]

\* what the user types
TitleInputs  == {<<>>, <<"N">>}
TextInputs   == {<<>>, <<"x">>}
TextFields   == {"albumArtist", "composer", "genre", "lyrics", "comment"}
ValidatedFields == {"year", "bpm", "trackNumber", "discNumber"}
ValidatedInputs(f) ==
    CASE f = "year"        -> {<<>>, <<"2", "0", "2", "4">>, <<"9", "9">>}
      [] f = "bpm"         -> {<<"1", "2", "8">>, <<"a">>}
      [] f = "trackNumber" -> {<<"3", "/", "1", "0">>, <<"x">>}
      [] f = "discNumber"  -> {<<"1">>}
ArtistInputs == {<<"c">>, <<" ">>}
LangFields   == {"lyricsLang", "commentLang"}
LangInputs   == {<<"E", "N">>, <<"d", "e", "u">>}
PickedLangs  == {<<"f", "r", "a">>}
TagInputs(frame) ==
    CASE frame = "TKEY" -> {<<"C", "#">>, <<"H">>, <<>>}
      [] frame = "TSRC" -> {<<"X">>}
      [] OTHER          -> {<<"v">>}

COMMON_LANGS == {<<"e", "n", "g">>, <<"f", "r", "a">>, <<"d", "e", "u">>,
                 <<"s", "p", "a">>, <<"j", "p", "n">>, <<"z", "h", "o">>,
                 <<"x", "x", "x">>}

ADDABLE_FRAMES == {"TKEY", "TCOP", "TPUB", "TIT3", "TIT1", "TEXT", "TENC",
                   "TMED", "TSRC", "TOPE"}

UpperSeq == <<"A", "B", "C", "D", "E", "F", "G", "H", "I", "J", "K", "L", "M",
              "N", "O", "P", "Q", "R", "S", "T", "U", "V", "W", "X", "Y", "Z">>
LowerSeq == <<"a", "b", "c", "d", "e", "f", "g", "h", "i", "j", "k", "l", "m",
              "n", "o", "p", "q", "r", "s", "t", "u", "v", "w", "x", "y", "z">>
\* s.toLowerCase()
ToLowerCase(s) ==
    [i \in 1..Len(s) |->
        IF s[i] \in UpperSet
        THEN LowerSeq[CHOOSE j \in 1..26 : UpperSeq[j] = s[i]]
        ELSE s[i]]

(***************************************************************************)
(* TrackEditorPanel: derived values of a render                            *)
(***************************************************************************)
isSingle == Len(trackIds) = 1

\* the editor form is rendered: neither "Loading..." nor "Track not found."
\* mutant of DisplayedOf: the form is rendered for a session over no records
DisplayedOfAnySession(ld, es, trks) == ~ld /\ es # Null

\* neither "Loading..." nor "Track not found." is rendered: the form is
DisplayedOf(ld, es, trks) == ~ld /\ es # Null /\ Len(trks) > 0
Displayed == DisplayedOf(loading, editState, tracks)

hasAnyEdit == editState # Null /\ \E f \in Fields : editState[f].kind = "edited"

hasValidationErrors == Keys(errors) # {} \/ Keys(extraTagErrors) # {}

\* mutant of SaveEnabled: the Save button ignores the saving flag
SaveEnabledIgnoresSaving == hasAnyEdit /\ ~saved /\ ~hasValidationErrors

\* the Save button is not disabled
SaveEnabled == hasAnyEdit /\ ~saving /\ ~saved /\ ~hasValidationErrors

\* LangPicker's useState initialiser, run when the form is mounted
MountCustom(es) ==
    [f \in LangFields |->
        LET value == Coalesce(displayValue(es[f]), S(<<"e", "n", "g">>))
        IN  NotNullish(value) /\ value.v \notin COMMON_LANGS]

\* the LangPicker states after a render: kept while the form stays mounted,
\* initialised when it is mounted, gone when it is not rendered
CustomAfter(ld, es, trks) ==
    IF DisplayedOf(ld, es, trks)
    THEN IF Displayed THEN langCustom ELSE MountCustom(es)
    ELSE [f \in LangFields |-> FALSE]

NoEvent == [task |-> "none", n |-> 0, stage |-> "none", outcome |-> "none",
            single |-> FALSE, updateFailed |-> FALSE, field |-> "none", value |-> Null]

(***************************************************************************)
(* TrackEditorPanel: mount, selection change and load()                    *)
(***************************************************************************)
\* the component after its first render and the first run of its effect
PanelMounted ==
    /\ trackIds \in Selections
    /\ tracks = <<>>
    /\ loading = TRUE
    /\ saving = FALSE
    /\ saved = FALSE
    /\ editState = Null
    /\ errors = {}
    /\ extraTags = <<>>
    /\ extraTagErrors = {}
    /\ langCustom = [f \in LangFields |-> FALSE]
    /\ loads = {[n |-> 0, ids |-> trackIds, phase |-> "tracks"]}
    /\ saves = {}
    /\ timers = 0
    /\ db = InitDb
    /\ dbExtra = InitDbExtra
    /\ calls = <<>>
    /\ lastEvent = NoEvent
    /\ nLoads = 0 /\ nSaves = 0

\* the parent passes another trackIds: the effect runs again
Select(sel) ==
    /\ opsLeft > 0
    /\ sel # trackIds
    /\ trackIds' = sel
    /\ loading' = TRUE
    /\ editState' = Null
    /\ extraTags' = <<>>
    /\ langCustom' = CustomAfter(TRUE, Null, tracks)
    /\ loads' = loads \cup {[n |-> nLoads + 1, ids |-> sel, phase |-> "tracks"]}
    /\ nLoads' = nLoads + 1
    /\ opsLeft' = opsLeft - 1
    /\ UNCHANGED <<tracks, saving, saved, errors, extraTagErrors, saves, timers,
                   db, dbExtra, calls, lastEvent, nSaves,
                   cacheVars, fnVars, tableVars>>

\* the rows of the ids whose getTrack returned ok, in the order of ids
RECURSIVE OkRows(_, _, _)
OkRows(ids, ok, rows) ==
    IF ids = <<>> THEN <<>>
    ELSE (IF ids[1] \in ok THEN <<rows[ids[1]]>> ELSE <<>>) \o OkRows(Tail(ids), ok, rows)

LoadEvent(l, stage, outcome) ==
    [NoEvent EXCEPT !.task = "load", !.n = l.n, !.stage = stage, !.outcome = outcome,
                    !.single = (Len(l.ids) = 1)]

\* load(): Promise.all of the getTrack calls and the two list calls resolved
LoadTracksApply(l, ok) ==
    LET loadedTracks == OkRows(l.ids, ok, db)
        more == Len(l.ids) = 1
        ld   == IF more THEN loading ELSE FALSE
    IN  /\ tracks' = loadedTracks
        /\ editState' = buildEditState(loadedTracks)
        /\ loading' = ld
        /\ langCustom' = CustomAfter(ld, editState', tracks')
        /\ loads' = IF more
                    THEN (loads \ {l}) \cup {[l EXCEPT !.phase = "extra"]}
                    ELSE loads \ {l}
        /\ lastEvent' = LoadEvent(l, "tracks", IF ok = Range(l.ids) THEN "ok" ELSE "partial")
        /\ UNCHANGED extraTags

LoadTracksDone(l, ok) ==
    /\ l \in loads /\ l.phase = "tracks"
    /\ ok \subseteq Range(l.ids)
    /\ LoadTracksApply(l, ok)
    /\ UNCHANGED <<trackIds, saving, saved, errors, extraTagErrors, saves, timers,
                   db, dbExtra, calls, opsLeft, nLoads, nSaves,
                   cacheVars, fnVars, tableVars>>

\* load(): one of the awaited calls threw: catch {} finally { setLoading(false) }
LoadThrows(l) ==
    /\ l \in loads
    /\ loading' = FALSE
    /\ langCustom' = CustomAfter(FALSE, editState, tracks)
    /\ loads' = loads \ {l}
    /\ lastEvent' = LoadEvent(l, l.phase, "throw")
    /\ UNCHANGED <<trackIds, tracks, saving, saved, editState, errors, extraTags,
                   extraTagErrors, saves, timers, db, dbExtra, calls,
                   opsLeft, nLoads, nSaves,
                   cacheVars, fnVars, tableVars>>

\* load(): getTrackExtraTags(trackIds[0]) returned, ok or an error result
LoadExtraDone(l, okRes) ==
    /\ l \in loads /\ l.phase = "extra"
    /\ extraTags' = IF okRes THEN dbExtra[l.ids[1]] ELSE extraTags
    /\ loading' = FALSE
    /\ langCustom' = CustomAfter(FALSE, editState, tracks)
    /\ loads' = loads \ {l}
    /\ lastEvent' = LoadEvent(l, "extra", IF okRes THEN "ok" ELSE "error")
    /\ UNCHANGED <<trackIds, tracks, saving, saved, editState, errors,
                   extraTagErrors, saves, timers, db, dbExtra, calls,
                   opsLeft, nLoads, nSaves,
                   cacheVars, fnVars, tableVars>>

(***************************************************************************)
(* TrackEditorPanel: field edits                                           *)
(***************************************************************************)
\* mutant of setField: a field whose records disagree stays divergent
setFieldKeepsDivergent(es, field, value) ==
    IF es = Null THEN es
    ELSE IF es[field].kind = "divergent" THEN es
    ELSE [es EXCEPT ![field] = Edited(value)]

\* setField(field, value): setEditState(prev => prev ? {...prev, [field]: edited} : prev)
setField(es, field, value) ==
    IF es = Null THEN es
    ELSE [es EXCEPT ![field] = Edited(value)]

\* an onChange handler calls setField(field, value)
SetFieldCall(field, value) ==
    /\ editState' = setField(editState, field, value)
    /\ lastEvent' = [NoEvent EXCEPT !.task = "edit", !.n = opsLeft,
                                      !.field = field, !.value = value]

EditFrame == <<trackIds, tracks, loading, saving, saved, extraTags, extraTagErrors,
               loads, saves, timers, db, dbExtra, calls,
               nLoads, nSaves, cacheVars, fnVars, tableVars>>

CanEdit == Displayed /\ opsLeft > 0

\* the text an <input> or <textarea> of field f shows: displayValue(fs) ?? "";
\* its onChange runs only for a text that differs from it
Shown(f) == Coalesce(displayValue(editState[f]), S(<<>>)).v

\* <input> of Title: onChange={(e) => setField("title", e.target.value || "")}
ChangeTitle(v) ==
    /\ CanEdit
    /\ v # Shown("title")
    /\ SetFieldCall("title", OrElse(S(v), S(<<>>)))
    /\ opsLeft' = opsLeft - 1
    /\ UNCHANGED <<EditFrame, errors, langCustom>>

\* <input>/<textarea> of a plain text field: setField(f, e.target.value || null)
ChangeText(f, v) ==
    /\ CanEdit
    /\ v # Shown(f)
    /\ SetFieldCall(f, OrElse(S(v), Null))
    /\ opsLeft' = opsLeft - 1
    /\ UNCHANGED <<EditFrame, errors, langCustom>>

\* AlbumAutocomplete, rendered unless the album is divergent
ChangeAlbum(v) ==
    /\ CanEdit
    /\ editState.albumTitle.kind # "divergent"
    /\ SetFieldCall("albumTitle", OrElse(S(v), Null))
    /\ opsLeft' = opsLeft - 1
    /\ UNCHANGED <<EditFrame, errors, langCustom>>

\* <input> of year, bpm, trackNumber, discNumber: setField, then the field's own
\* validator sets or deletes the field's entry of errors
ChangeValidated(f, v) ==
    /\ CanEdit
    /\ v # Shown(f)
    /\ SetFieldCall(f, OrElse(S(v), Null))
    /\ LET err == IF v # <<>> THEN FIELD_VALIDATORS(f, v) ELSE NoError
       IN  errors' = IF err # NoError THEN MapSet(errors, f, err) ELSE MapDel(errors, f)
    /\ opsLeft' = opsLeft - 1
    /\ UNCHANGED <<EditFrame, langCustom>>

\* the list ArtistTagInput shows: displayValue(editState.artistNames) ?? []
ArtistValue == Coalesce(displayValue(editState.artistNames), L(<<>>)).v

\* the chips ArtistTagInput renders, each with a remove button
ShownArtists == IF Displayed THEN Range(ArtistValue) ELSE {}

\* ArtistTagInput.addArtist(name)
AddArtist(name) ==
    /\ CanEdit
    /\ editState.artistNames.kind # "divergent"
    /\ LET trimmed == Trim(name)
       IN  /\ trimmed # <<>>
           /\ trimmed \notin Range(ArtistValue)
           /\ SetFieldCall("artistNames",
                                    L(Append(ArtistValue, trimmed)))
    /\ opsLeft' = opsLeft - 1
    /\ UNCHANGED <<EditFrame, errors, langCustom>>

\* ArtistTagInput.removeArtist(name): onChange(value.filter(v => v !== name))
RemoveArtist(name) ==
    /\ CanEdit
    /\ editState.artistNames.kind # "divergent"
    /\ name \in Range(ArtistValue)
    /\ SetFieldCall("artistNames",
                             L(SelectSeq(ArtistValue, LAMBDA x : x # name)))
    /\ opsLeft' = opsLeft - 1
    /\ UNCHANGED <<EditFrame, errors, langCustom>>

\* ArtistTagInput.handleKeyDown, Backspace in the empty text box: value.slice(0, -1)
BackspaceArtist ==
    /\ CanEdit
    /\ editState.artistNames.kind # "divergent"
    /\ Len(ArtistValue) > 0
    /\ SetFieldCall("artistNames",
                             L(SubSeq(ArtistValue, 1, Len(ArtistValue) - 1)))
    /\ opsLeft' = opsLeft - 1
    /\ UNCHANGED <<EditFrame, errors, langCustom>>

\* LangPicker <select>: a common code is chosen
PickLang(f, code) ==
    /\ CanEdit
    /\ ~langCustom[f]
    /\ code # Coalesce(displayValue(editState[f]), S(<<"e", "n", "g">>)).v
    /\ SetFieldCall(f, S(code))
    /\ opsLeft' = opsLeft - 1
    /\ UNCHANGED <<EditFrame, errors, langCustom>>

\* LangPicker <select>: "Other..." is chosen: setCustom(true); onChange(null)
PickCustomLang(f) ==
    /\ CanEdit
    /\ ~langCustom[f]
    /\ langCustom' = [langCustom EXCEPT ![f] = TRUE]
    /\ SetFieldCall(f, Null)
    /\ opsLeft' = opsLeft - 1
    /\ UNCHANGED <<EditFrame, errors>>

\* LangPicker custom <input>: onChange(e.target.value.toLowerCase() || null)
TypeLang(f, v) ==
    /\ CanEdit
    /\ v # Shown(f)
    /\ langCustom[f]
    /\ Len(v) <= 3
    /\ SetFieldCall(f, OrElse(S(ToLowerCase(v)), Null))
    /\ opsLeft' = opsLeft - 1
    /\ UNCHANGED <<EditFrame, errors, langCustom>>

\* LangPicker custom mode, the back button: setCustom(false); onChange("eng")
ResetLang(f) ==
    /\ CanEdit
    /\ langCustom[f]
    /\ langCustom' = [langCustom EXCEPT ![f] = FALSE]
    /\ SetFieldCall(f, S(<<"e", "n", "g">>))
    /\ opsLeft' = opsLeft - 1
    /\ UNCHANGED <<EditFrame, errors>>

\* mutant of discard: the error maps are kept
discardKeepsErrors ==
    /\ editState # Null /\ Len(tracks) # 0
    /\ editState' = buildEditState(tracks)
    /\ UNCHANGED <<errors, extraTagErrors>>

\* discard()
discard ==
    /\ editState # Null /\ Len(tracks) # 0
    /\ editState' = buildEditState(tracks)
    /\ errors' = {}
    /\ extraTagErrors' = {}

\* the Discard button, disabled={!hasAnyEdit}
Discard ==
    /\ Displayed
    /\ hasAnyEdit
    /\ opsLeft > 0
    /\ opsLeft' = opsLeft - 1
    /\ discard
    /\ lastEvent' = [NoEvent EXCEPT !.task = "discard", !.n = opsLeft]
    /\ UNCHANGED <<trackIds, tracks, loading, saving, saved, extraTags, langCustom,
                   loads, saves, timers, db, dbExtra, calls, nLoads, nSaves,
                   cacheVars, fnVars, tableVars>>

(***************************************************************************)
(* TrackEditorPanel: extra tags (single-track only)                        *)
(***************************************************************************)
TagFrame == <<trackIds, tracks, loading, saving, saved, editState, errors, langCustom,
              loads, saves, timers, db, dbExtra, calls, lastEvent,
              nLoads, nSaves, cacheVars, fnVars, tableVars>>

CanEditTags == Displayed /\ isSingle /\ opsLeft > 0

FrameIds(tags) == {tags[i].frame_id : i \in 1..Len(tags)}

\* the value <input> of an extra tag
ChangeExtraTag(frame, val) ==
    /\ CanEditTags
    /\ \E i \in 1..Len(extraTags) :
          extraTags[i].frame_id = frame /\ extraTags[i].value # val
    /\ extraTags' = [i \in 1..Len(extraTags) |->
                        IF extraTags[i].frame_id = frame
                        THEN [extraTags[i] EXCEPT !.value = val]
                        ELSE extraTags[i]]
    /\ extraTagErrors' =
          IF frame \in ValidatorKeys /\ val # <<>>
          THEN LET verr == FIELD_VALIDATORS(frame, val)
               IN  MapSet(extraTagErrors, frame, IF verr # NoError THEN verr ELSE "")
          ELSE MapDel(extraTagErrors, frame)
    /\ opsLeft' = opsLeft - 1
    /\ UNCHANGED TagFrame

\* the remove button of an extra tag
RemoveExtraTag(frame) ==
    /\ CanEditTags
    /\ frame \in FrameIds(extraTags)
    /\ extraTags' = SelectSeq(extraTags, LAMBDA t : t.frame_id # frame)
    /\ extraTagErrors' = MapDel(extraTagErrors, frame)
    /\ opsLeft' = opsLeft - 1
    /\ UNCHANGED TagFrame

\* mutant of AddExtraTag: the <select> also offers the frames already present
AddExtraTagAnyFrame(frame) ==
    /\ CanEditTags
    /\ frame \in ADDABLE_FRAMES
    /\ extraTags' = Append(extraTags, [frame_id |-> frame, value |-> <<>>])
    /\ opsLeft' = opsLeft - 1
    /\ UNCHANGED <<TagFrame, extraTagErrors>>

\* the add-frame <select>: its options are the addable frames not yet in the
\* list; onChange appends {frame_id, value: ""}
AddExtraTag(frame) ==
    /\ CanEditTags
    /\ frame \in ADDABLE_FRAMES
    /\ frame \notin FrameIds(extraTags)
    /\ extraTags' = Append(extraTags, [frame_id |-> frame, value |-> <<>>])
    /\ opsLeft' = opsLeft - 1
    /\ UNCHANGED <<TagFrame, extraTagErrors>>

(***************************************************************************)
(* TrackEditorPanel: save()                                                *)
(***************************************************************************)
\* validate(): the field errors it computes
ValidateFields(es) ==
    { [key |-> f, val |-> FIELD_VALIDATORS(f, es[f].value.v)] :
        f \in { g \in {"bpm", "year", "trackNumber", "discNumber"} :
                  /\ es[g].kind = "edited"
                  /\ Truthy(es[g].value)
                  /\ FIELD_VALIDATORS(g, es[g].value.v) # NoError } }

\* validate(): the extra-tag errors it computes
ValidateTags(tags) ==
    { [key |-> tags[i].frame_id, val |-> FIELD_VALIDATORS(tags[i].frame_id, tags[i].value)] :
        i \in { j \in 1..Len(tags) :
                  /\ tags[j].frame_id \in ValidatorKeys
                  /\ tags[j].value # <<>>
                  /\ FIELD_VALIDATORS(tags[j].frame_id, tags[j].value) # NoError } }

SaveEvent(sv, stage, outcome, failed) ==
    [NoEvent EXCEPT !.task = "save", !.n = sv.n, !.stage = stage, !.outcome = outcome,
                    !.single = sv.single, !.updateFailed = failed]

Call(sv, cmd, ids, arg) == [n |-> sv.n, cmd |-> cmd, ids |-> ids, arg |-> arg]

\* mutant of UpdateCommand: the single-record update is used for every selection
UpdateCommandAlwaysSingle(single) == "updateTrack"

\* save(): if (isSingle) updateTrack(...) else batchUpdateTracks(...)
UpdateCommand(single) == IF single THEN "updateTrack" ELSE "batchUpdateTracks"

\* save(), the click on Save when validate() returns false
SaveRefused ==
    /\ Displayed
    /\ SaveEnabled
    /\ editState # Null
    /\ ValidateFields(editState) \cup ValidateTags(extraTags) # {}
    /\ errors' = ValidateFields(editState)
    /\ extraTagErrors' = ValidateTags(extraTags)
    /\ UNCHANGED <<trackIds, tracks, loading, saving, saved, editState, extraTags,
                   langCustom, loads, saves, timers, db, dbExtra, calls, lastEvent,
                   opsLeft, nLoads, nSaves,
                   cacheVars, fnVars, tableVars>>

\* save() up to its first await: validate(), setSaving(true), the input, the call
SaveStart ==
    /\ Displayed
    /\ SaveEnabled
    /\ opsLeft > 0
    /\ editState # Null
    /\ ValidateFields(editState) \cup ValidateTags(extraTags) = {}
    /\ errors' = {}
    /\ extraTagErrors' = {}
    /\ saving' = TRUE
    /\ LET sv == [n |-> nSaves + 1, ids |-> trackIds, single |-> isSingle,
                  es |-> editState, input |-> SaveInput(editState),
                  extraTags |-> extraTags,
                  phase |-> IF isSingle THEN "update" ELSE "batch",
                  updateFailed |-> FALSE]
       IN  /\ saves' = saves \cup {sv}
           /\ calls' = Append(calls,
                  Call(sv, UpdateCommand(isSingle),
                       IF UpdateCommand(isSingle) = "updateTrack"
                       THEN <<trackIds[1]>> ELSE trackIds,
                       sv.input))
    /\ nSaves' = nSaves + 1
    /\ opsLeft' = opsLeft - 1
    /\ UNCHANGED <<trackIds, tracks, loading, saved, editState, extraTags, langCustom,
                   loads, timers, db, dbExtra, lastEvent, nLoads,
                   cacheVars, fnVars, tableVars>>

Advance(sv, phase, failed) ==
    (saves \ {sv}) \cup {[sv EXCEPT !.phase = phase, !.updateFailed = failed]}

\* setSaved(true); setTimeout(() => setSaved(false), 1500); the suggestions are fetched
Acknowledge ==
    /\ saved' = TRUE
    /\ timers' = timers + 1

\* save(), single: updateTrack(trackIds[0], input) returned, ok or an error result
SaveUpdateDone(sv, outcome) ==
    /\ sv \in saves /\ sv.phase = "update"
    /\ outcome \in {"ok", "error"}
    /\ LET id  == sv.ids[1]
           row == ApplyPatch(db[id], sv.input)
       IN  IF outcome = "ok"
           THEN /\ db' = [db EXCEPT ![id] = row]
                /\ tracks' = <<row>>
                /\ editState' = buildEditState(<<row>>)
                /\ langCustom' = CustomAfter(loading, editState', tracks')
                /\ calls' = Append(calls, Call(sv, "setTrackExtraTags", <<id>>, sv.extraTags))
                /\ saves' = Advance(sv, "extra", FALSE)
                /\ UNCHANGED <<saved, timers>>
           ELSE /\ Acknowledge
                /\ saves' = Advance(sv, "suggest", TRUE)
                /\ UNCHANGED <<db, tracks, editState, langCustom, calls>>
    /\ lastEvent' = SaveEvent(sv, "update", outcome, outcome = "error")
    /\ UNCHANGED <<trackIds, loading, saving, errors, extraTags, extraTagErrors,
                   loads, dbExtra, opsLeft, nLoads, nSaves,
                   cacheVars, fnVars, tableVars>>

\* save(), single: setTrackExtraTags(trackIds[0], extraTags) returned; its result
\* is not looked at
SaveExtraDone(sv, outcome) ==
    /\ sv \in saves /\ sv.phase = "extra"
    /\ outcome \in {"ok", "error"}
    /\ dbExtra' = IF outcome = "ok" THEN [dbExtra EXCEPT ![sv.ids[1]] = sv.extraTags]
                  ELSE dbExtra
    /\ Acknowledge
    /\ saves' = Advance(sv, "suggest", sv.updateFailed)
    /\ lastEvent' = SaveEvent(sv, "extra", outcome, sv.updateFailed)
    /\ UNCHANGED <<trackIds, tracks, loading, saving, editState, errors, extraTags,
                   extraTagErrors, langCustom, loads, db, calls,
                   opsLeft, nLoads, nSaves,
                   cacheVars, fnVars, tableVars>>

\* save(), multi: batchUpdateTracks(trackIds, input) returned; its result is not
\* looked at, and every id is fetched again
SaveBatchDone(sv, outcome) ==
    /\ sv \in saves /\ sv.phase = "batch"
    /\ outcome \in {"ok", "error"}
    /\ db' = IF outcome = "ok"
             THEN [i \in Ids |-> IF i \in Range(sv.ids) THEN ApplyPatch(db[i], sv.input)
                                 ELSE db[i]]
             ELSE db
    /\ calls' = Append(calls, Call(sv, "getTrack", sv.ids, Null))
    /\ saves' = Advance(sv, "refetch", outcome = "error")
    /\ lastEvent' = SaveEvent(sv, "batch", outcome, outcome = "error")
    /\ UNCHANGED <<trackIds, tracks, loading, saving, saved, editState, errors,
                   extraTags, extraTagErrors, langCustom, loads, timers, dbExtra,
                   opsLeft, nLoads, nSaves,
                   cacheVars, fnVars, tableVars>>

\* save(), multi: Promise.all of the getTrack calls resolved
SaveRefetchDone(sv, ok) ==
    /\ sv \in saves /\ sv.phase = "refetch"
    /\ ok \subseteq Range(sv.ids)
    /\ LET reloaded == OkRows(sv.ids, ok, db)
       IN  /\ tracks' = reloaded
           /\ editState' = buildEditState(reloaded)
    /\ langCustom' = CustomAfter(loading, editState', tracks')
    /\ Acknowledge
    /\ saves' = Advance(sv, "suggest", sv.updateFailed)
    /\ lastEvent' = SaveEvent(sv, "refetch", IF ok = Range(sv.ids) THEN "ok" ELSE "partial",
                              sv.updateFailed)
    /\ UNCHANGED <<trackIds, loading, saving, errors, extraTags, extraTagErrors,
                   loads, db, dbExtra, calls, opsLeft, nLoads, nSaves,
                   cacheVars, fnVars, tableVars>>

\* save(): listArtists and listAlbums returned: finally { setSaving(false) }
SaveSuggestDone(sv) ==
    /\ sv \in saves /\ sv.phase = "suggest"
    /\ saving' = FALSE
    /\ saves' = saves \ {sv}
    /\ lastEvent' = SaveEvent(sv, "suggest", "ok", sv.updateFailed)
    /\ UNCHANGED <<trackIds, tracks, loading, saved, editState, errors, extraTags,
                   extraTagErrors, langCustom, loads, timers, db, dbExtra, calls,
                   opsLeft, nLoads, nSaves,
                   cacheVars, fnVars, tableVars>>

\* mutant of SaveThrows: no finally block, the saving flag stays set
SaveThrowsKeepsSaving(sv) ==
    /\ sv \in saves
    /\ saves' = saves \ {sv}
    /\ lastEvent' = SaveEvent(sv, sv.phase, "throw",
                              sv.updateFailed \/ sv.phase \in {"update", "batch"})
    /\ UNCHANGED <<trackIds, tracks, loading, saving, saved, editState, errors,
                   extraTags, extraTagErrors, langCustom, loads, timers, db,
                   dbExtra, calls, opsLeft, nLoads, nSaves,
                   cacheVars, fnVars, tableVars>>

\* save(): the awaited call threw: finally { setSaving(false) }
SaveThrows(sv) ==
    /\ sv \in saves
    /\ saving' = FALSE
    /\ saves' = saves \ {sv}
    /\ lastEvent' = SaveEvent(sv, sv.phase, "throw",
                              sv.updateFailed \/ sv.phase \in {"update", "batch"})
    /\ UNCHANGED <<trackIds, tracks, loading, saved, editState, errors, extraTags,
                   extraTagErrors, langCustom, loads, timers, db, dbExtra, calls,
                   opsLeft, nLoads, nSaves,
                   cacheVars, fnVars, tableVars>>

\* mutant of TimerFires: the callback does not clear the acknowledgment
TimerFiresKeepsSaved ==
    /\ timers > 0
    /\ timers' = timers - 1
    /\ UNCHANGED <<trackIds, tracks, loading, saving, saved, editState, errors,
                   extraTags, extraTagErrors, langCustom, loads, saves, db,
                   dbExtra, calls, lastEvent, opsLeft, nLoads, nSaves,
                   cacheVars, fnVars, tableVars>>

\* the callback of setTimeout(() => setSaved(false), 1500)
TimerFires ==
    /\ timers > 0
    /\ saved' = FALSE
    /\ timers' = timers - 1
    /\ UNCHANGED <<trackIds, tracks, loading, saving, editState, errors, extraTags,
                   extraTagErrors, langCustom, loads, saves, db, dbExtra, calls,
                   lastEvent, opsLeft, nLoads, nSaves,
                   cacheVars, fnVars, tableVars>>

(***************************************************************************)
(* Cover-art caches and pure functions: idle in the panel's specification  *)
(***************************************************************************)
CacheNames == {"track", "album", "artist"}
InitCacheIdle ==
    /\ coverCache = [c \in CacheNames |-> {}]
    /\ pending = [c \in CacheNames |-> {}]
    /\ fetches = [c \in CacheNames |-> <<>>]
    /\ callers = <<>>
\* the Table component as it is mounted, with no row clicked
NoTableOp == [n |-> 0, op |-> "none", row |-> 0, anchor |-> 0]
InitTableIdle ==
    /\ selectedIds = {}
    /\ lastClickedIndexRef = Null
    /\ sorting = "none"
    /\ tableLog = NoTableOp

InitFnIdle ==
    /\ fnTracks = <<>>
    /\ fnField = "title"
    /\ fnResult = Null
    /\ fnInput = <<>>

(***************************************************************************)
(* One selection: a load and commits that may fail, and the user editing   *)
(* the title, the BPM and the initial-key tag                              *)
(***************************************************************************)
FocusFrames == {"TKEY"}

Init == PanelMounted /\ opsLeft = MaxOps /\ InitCacheIdle /\ InitFnIdle /\ InitTableIdle

Next ==
    \/ \E v \in TitleInputs : ChangeTitle(v)
    \/ \E v \in ValidatedInputs("bpm") : ChangeValidated("bpm", v)
    \/ \E frame \in FocusFrames : \E val \in TagInputs(frame) : ChangeExtraTag(frame, val)
    \/ \E frame \in FocusFrames : RemoveExtraTag(frame)
    \/ \E frame \in FocusFrames : AddExtraTag(frame)
    \/ Discard
    \/ \E l \in loads : \E ok \in SUBSET Range(l.ids) : LoadTracksDone(l, ok)
    \/ \E l \in loads : LoadThrows(l)
    \/ \E l \in loads, okRes \in BOOLEAN : LoadExtraDone(l, okRes)
    \/ SaveRefused
    \/ SaveStart
    \/ \E sv \in saves, outcome \in {"ok", "error"} : SaveUpdateDone(sv, outcome)
    \/ \E sv \in saves, outcome \in {"ok", "error"} : SaveExtraDone(sv, outcome)
    \/ \E sv \in saves, outcome \in {"ok", "error"} : SaveBatchDone(sv, outcome)
    \/ \E sv \in saves : \E ok \in SUBSET Range(sv.ids) : SaveRefetchDone(sv, ok)
    \/ \E sv \in saves : SaveSuggestDone(sv)
    \/ \E sv \in saves : SaveThrows(sv)
    \/ TimerFires

Spec == Init /\ [][Next]_vars

(***************************************************************************)
(* One selection and its commits, where every call a commit awaits is      *)
(* answered in the end: it returns ok, returns an error, or throws         *)
(***************************************************************************)
\* user operations in a session of commits
MaxCommitOps == 3

InitLive == PanelMounted /\ opsLeft = MaxCommitOps /\ InitCacheIdle /\ InitFnIdle /\ InitTableIdle

NextLive ==
    \/ \E v \in TitleInputs : ChangeTitle(v)
    \/ Discard
    \/ \E l \in loads : LoadTracksDone(l, Range(l.ids))
    \/ \E l \in loads, okRes \in BOOLEAN : LoadExtraDone(l, okRes)
    \/ SaveStart
    \/ \E sv \in saves, outcome \in {"ok", "error"} : SaveUpdateDone(sv, outcome)
    \/ \E sv \in saves, outcome \in {"ok", "error"} : SaveExtraDone(sv, outcome)
    \/ \E sv \in saves, outcome \in {"ok", "error"} : SaveBatchDone(sv, outcome)
    \/ \E sv \in saves : \E ok \in SUBSET Range(sv.ids) : SaveRefetchDone(sv, ok)
    \/ \E sv \in saves : SaveSuggestDone(sv)
    \/ \E sv \in saves : SaveThrows(sv)
    \/ TimerFires

\* a save() in flight ends: its last awaited call returns, or the call it
\* awaits throws; both run the finally block
SaveEnds == \E sv \in saves : SaveSuggestDone(sv) \/ SaveThrows(sv)

\* A save() awaits at most four calls in a row. Weak fairness of SaveEnds
\* admits exactly the behaviours in which none of them stays unanswered for
\* ever: each is answered with a result or with an exception.
\* A callback scheduled with setTimeout runs in the end: weak fairness of
\* TimerFires.
SpecLive ==
    InitLive /\ [][NextLive]_vars /\ WF_vars(SaveEnds) /\ WF_vars(TimerFires)

(***************************************************************************)
(* Selection changes: the loads of successive selections run concurrently  *)
(* and finish in any order, while the user edits the title                 *)
(***************************************************************************)
InitLoad == PanelMounted /\ opsLeft = MaxLoadOps /\ InitCacheIdle /\ InitFnIdle /\ InitTableIdle

NextLoad ==
    \/ \E sel \in Selections : Select(sel)
    \/ \E v \in TitleInputs : ChangeTitle(v)
    \/ \E l \in loads : \E ok \in SUBSET Range(l.ids) : LoadTracksDone(l, ok)
    \/ \E l \in loads : LoadThrows(l)
    \/ \E l \in loads, okRes \in BOOLEAN : LoadExtraDone(l, okRes)

SpecLoad == InitLoad /\ [][NextLoad]_vars

(***************************************************************************)
(* Selection changes in a session that is being edited and committed: the  *)
(* user edits the title and the BPM, saves, and the parent passes another  *)
(* selection; every call succeeds                                          *)
(***************************************************************************)
\* user operations in a session with selection changes and commits
MaxReselectOps == 3

InitReselect == PanelMounted /\ opsLeft = MaxReselectOps /\ InitCacheIdle /\ InitFnIdle /\ InitTableIdle

NextReselect ==
    \/ \E sel \in Selections : Select(sel)
    \/ \E v \in TitleInputs : ChangeTitle(v)
    \/ \E v \in ValidatedInputs("bpm") : ChangeValidated("bpm", v)
    \/ \E l \in loads : LoadTracksDone(l, Range(l.ids))
    \/ \E l \in loads : LoadExtraDone(l, TRUE)
    \/ SaveStart
    \/ \E sv \in saves : SaveUpdateDone(sv, "ok")
    \/ \E sv \in saves : SaveExtraDone(sv, "ok")
    \/ \E sv \in saves : SaveBatchDone(sv, "ok")
    \/ \E sv \in saves : SaveRefetchDone(sv, Range(sv.ids))
    \/ \E sv \in saves : SaveSuggestDone(sv)
    \/ TimerFires

SpecReselect == InitReselect /\ [][NextReselect]_vars

(***************************************************************************)
(* One session in which every call succeeds, and the user editing every    *)
(* field and every addable extra tag                                       *)
(***************************************************************************)
InitFields == PanelMounted /\ opsLeft = MaxFieldOps /\ InitCacheIdle /\ InitFnIdle /\ InitTableIdle

NextFields ==
    \/ \E v \in TitleInputs : ChangeTitle(v)
    \/ \E f \in TextFields, v \in TextInputs : ChangeText(f, v)
    \/ \E v \in TextInputs : ChangeAlbum(v)
    \/ \E f \in ValidatedFields : \E v \in ValidatedInputs(f) : ChangeValidated(f, v)
    \/ \E name \in ArtistInputs : AddArtist(name)
    \/ \E name \in ShownArtists : RemoveArtist(name)
    \/ BackspaceArtist
    \/ \E f \in LangFields, code \in PickedLangs : PickLang(f, code)
    \/ \E f \in LangFields : PickCustomLang(f)
    \/ \E f \in LangFields, v \in LangInputs : TypeLang(f, v)
    \/ \E f \in LangFields : ResetLang(f)
    \/ \E frame \in ADDABLE_FRAMES : \E val \in TagInputs(frame) : ChangeExtraTag(frame, val)
    \/ \E frame \in ADDABLE_FRAMES : RemoveExtraTag(frame)
    \/ \E frame \in ADDABLE_FRAMES : AddExtraTag(frame)
    \/ Discard
    \/ \E l \in loads : LoadTracksDone(l, Range(l.ids))
    \/ \E l \in loads : LoadExtraDone(l, TRUE)
    \/ SaveRefused
    \/ SaveStart
    \/ \E sv \in saves : SaveUpdateDone(sv, "ok")
    \/ \E sv \in saves : SaveExtraDone(sv, "ok")
    \/ \E sv \in saves : SaveBatchDone(sv, "ok")
    \/ \E sv \in saves : SaveRefetchDone(sv, Range(sv.ids))
    \/ \E sv \in saves : SaveSuggestDone(sv)
    \/ TimerFires

SpecFields == InitFields /\ [][NextFields]_vars

(***************************************************************************)
(* One session in which every call succeeds, and the user working the two  *)
(* language pickers                                                        *)
(***************************************************************************)
\* user operations in a session of the language pickers
MaxLangOps == 3

InitLang == PanelMounted /\ opsLeft = MaxLangOps /\ InitCacheIdle /\ InitFnIdle /\ InitTableIdle

NextLang ==
    \/ \E f \in LangFields, code \in PickedLangs : PickLang(f, code)
    \/ \E f \in LangFields : PickCustomLang(f)
    \/ \E f \in LangFields, v \in LangInputs : TypeLang(f, v)
    \/ \E f \in LangFields : ResetLang(f)
    \/ \E l \in loads : LoadTracksDone(l, Range(l.ids))
    \/ \E l \in loads : LoadExtraDone(l, TRUE)
    \/ SaveRefused
    \/ SaveStart
    \/ \E sv \in saves : SaveUpdateDone(sv, "ok")
    \/ \E sv \in saves : SaveExtraDone(sv, "ok")
    \/ \E sv \in saves : SaveBatchDone(sv, "ok")
    \/ \E sv \in saves : SaveRefetchDone(sv, Range(sv.ids))
    \/ \E sv \in saves : SaveSuggestDone(sv)
    \/ TimerFires

SpecLang == InitLang /\ [][NextLang]_vars

(***************************************************************************)
(* hooks/useCoverArt: useCoverArt, useAlbumCoverArt, useArtistCoverArt     *)
(*                                                                         *)
(* A promise is its index in fetches[cache].  The model lets a new hook    *)
(* instance mount between the fetch's own then-callback and the callbacks  *)
(* of the callers, which the event loop runs back to back: it allows more  *)
(* interleavings than the code.                                            *)
(***************************************************************************)
\* hook instances in one run
MaxCallers == 2

\* the hook calls made: id is the hook's first argument (trackId, albumId or
\* artistId), albumId the second argument of useCoverArt
CoverRequests ==
    {[cache |-> "track", id |-> 1, albumId |-> N(7)],
     [cache |-> "track", id |-> 2, albumId |-> N(7)],
     [cache |-> "track", id |-> 3, albumId |-> Null],
     [cache |-> "album", id |-> 7, albumId |-> Null],
     [cache |-> "artist", id |-> 4, albumId |-> Null]}

\* const key = albumId ?? -trackId; the album and artist hooks use their id
CoverKey(r) ==
    IF r.cache = "track" THEN Coalesce(r.albumId, N(0 - r.id)).v ELSE r.id

\* the useState initialiser of the hook
InitialSrc(r) ==
    LET k == IF r.cache = "track" THEN r.albumId ELSE N(r.id)
    IN  IF k # Null /\ k.v \in Keys(coverCache[r.cache])
        THEN MapGet(coverCache[r.cache], k.v)
        ELSE Null

\* what the backend answers to a fetch: a result with data, a result without,
\* an error result, or a rejected invoke
FetchOutcomes == {"data", "nodata", "error", "throw"}

\* `data:${res.data.mimeType};base64,${res.data.data}` of the row fetched
DataUrl(cache, arg) == [t |-> "url", cache |-> cache, of |-> arg]

\* mutant of pendingGet: the in-flight map is never consulted
pendingGetNothing(cache, key) == 0

\* pending.get(key): the promise in flight for the key, 0 for undefined
pendingGet(cache, key) ==
    IF key \in Keys(pending[cache]) THEN MapGet(pending[cache], key) ELSE 0

\* a hook instance is mounted: its first render and the run of its effect
MountHook(r) ==
    LET c   == r.cache
        key == CoverKey(r)
        me  == [cache |-> c, key |-> key, promise |-> 0, cancelled |-> FALSE,
                src |-> InitialSrc(r), got |-> FALSE]
    IN  /\ Len(callers) < MaxCallers
        /\ IF key \in Keys(coverCache[c])
           THEN /\ callers' = Append(callers,
                        [me EXCEPT !.src = MapGet(coverCache[c], key), !.got = TRUE])
                /\ UNCHANGED <<pending, fetches>>
           ELSE LET p == pendingGet(c, key)
                IN  IF p # 0
                    THEN /\ callers' = Append(callers, [me EXCEPT !.promise = p])
                         /\ UNCHANGED <<pending, fetches>>
                    ELSE /\ fetches' = [fetches EXCEPT ![c] =
                                Append(@, [key |-> key, arg |-> r.id,
                                           state |-> "inflight", url |-> Null])]
                         /\ pending' = [pending EXCEPT ![c] =
                                MapSet(@, key, Len(fetches[c]) + 1)]
                         /\ callers' = Append(callers,
                                [me EXCEPT !.promise = Len(fetches[c]) + 1])
        /\ UNCHANGED <<coverCache, panelVars, fnVars, tableVars>>

\* the backend answers fetch p of cache c: the then-callback given to the
\* command's promise runs, or the promise rejects
FetchSettles(c, p, outcome) ==
    /\ p \in 1..Len(fetches[c])
    /\ fetches[c][p].state = "inflight"
    /\ LET f   == fetches[c][p]
           url == IF outcome = "data" THEN DataUrl(c, f.arg) ELSE Null
       IN  IF outcome = "throw"
           THEN /\ fetches' = [fetches EXCEPT ![c][p].state = "rejected"]
                /\ UNCHANGED coverCache
           ELSE /\ fetches' = [fetches EXCEPT ![c][p].state = "resolved",
                                              ![c][p].url = url]
                /\ coverCache' = [coverCache EXCEPT ![c] = MapSet(@, f.key, url)]
    /\ UNCHANGED <<pending, callers, panelVars, fnVars, tableVars>>

\* the callback caller i gave to promise.then runs
CallerResolved(i) ==
    /\ i \in 1..Len(callers)
    /\ LET me == callers[i]
       IN  /\ me.promise # 0 /\ ~me.got
           /\ fetches[me.cache][me.promise].state = "resolved"
           /\ pending' = [pending EXCEPT ![me.cache] = MapDel(@, me.key)]
           /\ callers' = [callers EXCEPT
                  ![i].got = TRUE,
                  ![i].src = IF me.cancelled THEN me.src
                             ELSE fetches[me.cache][me.promise].url]
    /\ UNCHANGED <<coverCache, fetches, panelVars, fnVars, tableVars>>

\* the effect of caller i is torn down: the cleanup it returned runs (an
\* effect that found the key in the cache returned none)
\* mutant of Teardown: the cleanup also drops the shared in-flight request
TeardownDropsPending(i) ==
    /\ i \in 1..Len(callers)
    /\ callers[i].promise # 0 /\ ~callers[i].cancelled
    /\ callers' = [callers EXCEPT ![i].cancelled = TRUE]
    /\ pending' = [pending EXCEPT ![callers[i].cache] = MapDel(@, callers[i].key)]
    /\ UNCHANGED <<coverCache, fetches, panelVars, fnVars, tableVars>>

Teardown(i) ==
    /\ i \in 1..Len(callers)
    /\ callers[i].promise # 0 /\ ~callers[i].cancelled
    /\ callers' = [callers EXCEPT ![i].cancelled = TRUE]
    /\ UNCHANGED <<coverCache, pending, fetches, panelVars, fnVars, tableVars>>

InitPanelIdle == PanelMounted /\ trackIds = <<1>> /\ opsLeft = 0

InitCache == InitPanelIdle /\ InitCacheIdle /\ InitFnIdle /\ InitTableIdle

NextCache ==
    \/ \E r \in CoverRequests : MountHook(r)
    \/ \E c \in CacheNames, p \in 1..MaxCallers + 1, outcome \in FetchOutcomes :
          FetchSettles(c, p, outcome)
    \/ \E i \in 1..MaxCallers + 1 : CallerResolved(i)
    \/ \E i \in 1..MaxCallers + 1 : Teardown(i)

SpecCache == InitCache /\ [][NextCache]_vars

(***************************************************************************)
(* computeField as a function: applied to every list of up to MaxRecs      *)
(* records and every field                                                 *)
(***************************************************************************)
\* records in one list
MaxRecs == 2

\* rows that differ in some fields and agree in others
Track3 == [Track1 EXCEPT !.artistName = S(<<"a", ",", "b">>),
                         !.trackTotal = Null, !.genre = Null]
Rows == {Track1, Track2, Track3}

RECURSIVE ListsUpTo(_, _)
ListsUpTo(set, n) ==
    IF n = 0 THEN {<<>>}
    ELSE LET shorter == ListsUpTo(set, n - 1)
         IN  shorter \cup {Append(l, x) : l \in shorter, x \in set}

InitCompute ==
    /\ InitPanelIdle /\ InitCacheIdle /\ InitTableIdle
    /\ fnTracks \in ListsUpTo(Rows, MaxRecs) \ {<<>>}
    /\ fnField \in Fields
    /\ fnResult = Null
    /\ fnInput = <<>>

Compute ==
    /\ fnResult = Null
    /\ fnResult' = computeField(fnTracks, fnField)
    /\ UNCHANGED <<fnTracks, fnField, fnInput, panelVars, cacheVars, tableVars>>

NextCompute == Compute

SpecCompute == InitCompute /\ [][NextCompute]_vars

(***************************************************************************)
(* The artist list written by save() and read back by buildEditState, and  *)
(* parseTrackDisc, as functions: applied to every list of up to MaxNames   *)
(* names added in the artist input and to every text of up to MaxChars     *)
(* characters                                                              *)
(***************************************************************************)
\* names added to the artist list
MaxNames == 2
\* characters of the text in the track-number or disc-number input
MaxChars == 3

\* texts typed in the artist input before Enter
TypedNames ==
    { <<"a">>, <<"b">>, <<" ", "c">>, <<" ">>,
      <<"a", "/", "b">>, <<"a", " ", "/", " ", "b">> }

\* ArtistTagInput.addArtist: the list passed to onChange (the list as it was
\* when the name is empty after trim or already in the list)
addArtist(value, name) ==
    LET trimmed == Trim(name)
    IN  IF trimmed = <<>> \/ trimmed \in Range(value) THEN value
        ELSE Append(value, trimmed)

\* the artist lists n calls of addArtist can build from the empty list
RECURSIVE ArtistLists(_)
ArtistLists(n) ==
    IF n = 0 THEN {<<>>}
    ELSE LET shorter == ArtistLists(n - 1)
         IN  shorter \cup {addArtist(l, x) : l \in shorter, x \in TypedNames}

\* characters typed in the track-number and disc-number inputs
NumberChars == {"0", "1", "7", "/", "x"}

InitParse ==
    /\ InitPanelIdle /\ InitCacheIdle /\ InitTableIdle
    /\ fnTracks = <<>>
    /\ fnResult = Null
    /\ \/ fnField = "artistNames" /\ fnInput \in ArtistLists(MaxNames)
       \/ fnField \in {"trackNumber", "discNumber"}
             /\ fnInput \in ListsUpTo(NumberChars, MaxChars)

\* save() writes the edited artist list into the patch; buildEditState reads
\* the artist list of a record whose artistName is the text written
ArtistRoundTrip ==
    /\ fnField = "artistNames" /\ fnResult = Null
    /\ LET es    == [buildEditState(<<Track1>>) EXCEPT
                        !.artistNames = Edited(L(fnInput))]
           input == ArtistEntry(es)
       IN  fnResult' = [ input |-> input,
                         names |-> ExtractArtistNames(
                                      [artistName |-> MapGet(input, "artistName")]) ]
    /\ UNCHANGED <<fnTracks, fnField, fnInput, panelVars, cacheVars, tableVars>>

\* parseTrackDisc applied to the text of the input
ParseTrackDisc ==
    /\ fnField \in {"trackNumber", "discNumber"} /\ fnResult = Null
    /\ fnResult' = parseTrackDisc(S(fnInput))
    /\ UNCHANGED <<fnTracks, fnField, fnInput, panelVars, cacheVars, tableVars>>

NextParse == ArtistRoundTrip \/ ParseTrackDisc

SpecParse == InitParse /\ [][NextParse]_vars

(***************************************************************************)
(* Promise.all(trackIds.map((id) => commands.getTrack(id))): the per-id    *)
(* fetches of a load or of a post-commit re-fetch return in any order, and *)
(* the session is built from the array Promise.all resolves with           *)
(***************************************************************************)
\* the id lists fetched: every order of every non-empty set of ids
FetchLists == {<<1>>, <<2>>, <<1, 2>>, <<2, 1>>}

\* fnInput is the id list, fnTracks the result array of Promise.all (Null
\* where the call has not returned), fnField the field looked at
InitFetch ==
    /\ InitPanelIdle /\ InitCacheIdle /\ InitTableIdle
    /\ fnInput \in FetchLists
    /\ fnTracks = [i \in 1..Len(fnInput) |-> Null]
    /\ fnField \in Fields
    /\ fnResult = Null

\* results of getTrack that have arrived
Arrived == {i \in 1..Len(fnTracks) : fnTracks[i] # Null}

\* mutant of GetTrackReturns: a result takes the first free place of the array
GetTrackReturnsInArrivalOrder(i, okRes) ==
    /\ i \in 1..Len(fnInput) /\ fnResult = Null
    /\ Cardinality(Arrived) < Len(fnInput)
    /\ \A a \in Arrived : fnTracks[a].of # i
    /\ fnTracks' = [fnTracks EXCEPT ![Cardinality(Arrived) + 1] =
                      [ status |-> IF okRes THEN "ok" ELSE "error",
                        data   |-> db[fnInput[i]],
                        of     |-> i,
                        at     |-> Cardinality(Arrived) + 1 ]]
    /\ UNCHANGED <<fnInput, fnField, fnResult, panelVars, cacheVars, tableVars>>

\* getTrack(trackIds[i]) returns, ok or an error result: Promise.all puts the
\* result at index i of its array, whenever it arrives
GetTrackReturns(i, okRes) ==
    /\ i \in 1..Len(fnInput) /\ fnResult = Null
    /\ fnTracks[i] = Null
    /\ fnTracks' = [fnTracks EXCEPT ![i] =
                      [ status |-> IF okRes THEN "ok" ELSE "error",
                        data   |-> db[fnInput[i]],
                        of     |-> i,
                        at     |-> Cardinality(Arrived) + 1 ]]
    /\ UNCHANGED <<fnInput, fnField, fnResult, panelVars, cacheVars, tableVars>>

\* Promise.all resolves: results.filter(r => r.status === "ok").map(r => r.data),
\* then setTracks and setEditState(buildEditState(...))
PromiseAllResolves ==
    /\ fnResult = Null
    /\ Arrived = 1..Len(fnInput)
    /\ LET ok     == SelectSeq(fnTracks, LAMBDA r : r.status = "ok")
           loaded == [i \in 1..Len(ok) |-> ok[i].data]
       IN  fnResult' = [tracks |-> loaded, state |-> computeField(loaded, fnField)]
    /\ UNCHANGED <<fnInput, fnField, fnTracks, panelVars, cacheVars, tableVars>>

NextFetch ==
    \/ \E i \in 1..Len(fnInput), okRes \in BOOLEAN : GetTrackReturns(i, okRes)
    \/ PromiseAllResolves

SpecFetch == InitFetch /\ [][NextFetch]_vars

(***************************************************************************)
(* routes/table: the selection of rows in the Table component and the      *)
(* panel it renders on the right                                           *)
(***************************************************************************)
\* rows of the table
MaxRows == 3
\* operations on the table
MaxClicks == 4

\* table.getRowModel().rows: the ids in the order listTracks returned them,
\* or in descending order when a column header was clicked
sortedRows(srt) ==
    [i \in 1..MaxRows |-> IF srt = "none" THEN i ELSE MaxRows + 1 - i]

\* handleRowClick(e, trackId, rowIndex): the selection and the ref after it;
\* mod is "shift" for e.shiftKey, "ctrl" for e.ctrlKey || e.metaKey
handleRowClick(sel, ref, rows, mod, trackId, rowIndex) ==
    IF mod = "shift" /\ ref # Null
    THEN LET start == IF ref.v < rowIndex THEN ref.v ELSE rowIndex
             end   == IF ref.v < rowIndex THEN rowIndex ELSE ref.v
         IN  [ selectedIds |-> sel \cup {rows[i] : i \in start..end},
               ref |-> ref ]
    ELSE IF mod = "ctrl"
    THEN [ selectedIds |-> IF trackId \in sel THEN sel \ {trackId}
                           ELSE sel \cup {trackId},
           ref |-> N(rowIndex) ]
    ELSE [ selectedIds |-> {trackId}, ref |-> N(rowIndex) ]

\* <tr onClick>: a click on the row at rowIndex
RowClick(rowIndex, mod) ==
    /\ tableLog.n < MaxClicks
    /\ rowIndex \in 1..MaxRows
    /\ LET rows    == sortedRows(sorting)
           trackId == rows[rowIndex]
           after   == handleRowClick(selectedIds, lastClickedIndexRef, rows,
                                     mod, trackId, rowIndex)
       IN  /\ selectedIds' = after.selectedIds
           /\ lastClickedIndexRef' = after.ref
           /\ tableLog' = [ n |-> tableLog.n + 1, op |-> mod, row |-> trackId,
                            anchor |-> IF mod = "shift" /\ lastClickedIndexRef # Null
                                       THEN tableLog.anchor ELSE trackId ]
    /\ UNCHANGED <<sorting, panelVars, cacheVars, fnVars>>

\* <tr onContextMenu>: a right click selects the row unless it is selected
OpenContextMenu(rowIndex) ==
    /\ tableLog.n < MaxClicks
    /\ rowIndex \in 1..MaxRows
    /\ LET trackId == sortedRows(sorting)[rowIndex]
           fresh   == trackId \notin selectedIds
       IN  /\ selectedIds' = IF fresh THEN {trackId} ELSE selectedIds
           /\ lastClickedIndexRef' = IF fresh THEN N(rowIndex) ELSE lastClickedIndexRef
           /\ tableLog' = [ n |-> tableLog.n + 1, op |-> "menu", row |-> trackId,
                            anchor |-> IF fresh THEN trackId ELSE tableLog.anchor ]
    /\ UNCHANGED <<sorting, panelVars, cacheVars, fnVars>>

\* the "Clear selection" button, rendered while a row is selected
ClearSelection ==
    /\ tableLog.n < MaxClicks
    /\ selectedIds # {}
    /\ selectedIds' = {}
    /\ tableLog' = [tableLog EXCEPT !.n = @ + 1, !.op = "clear", !.row = 0]
    /\ UNCHANGED <<lastClickedIndexRef, sorting, panelVars, cacheVars, fnVars>>

\* onSortingChange: a click on a column header changes the order of the rows
SetSorting(srt) ==
    /\ tableLog.n < MaxClicks
    /\ srt # sorting
    /\ sorting' = srt
    /\ tableLog' = [tableLog EXCEPT !.n = @ + 1, !.op = "sort", !.row = 0]
    /\ UNCHANGED <<selectedIds, lastClickedIndexRef, panelVars, cacheVars, fnVars>>

\* the right panel the Table renders, and the props it passes
RightPanel ==
    IF Cardinality(selectedIds) = 0 THEN [kind |-> "placeholder", props |-> <<>>]
    ELSE IF Cardinality(selectedIds) = 1
    THEN [ kind |-> "TrackEditorPanel",
           props |-> [trackId |-> CHOOSE id \in selectedIds : TRUE] ]
    ELSE [ kind |-> "MultiSelectPanel",
           props |-> [count |-> Cardinality(selectedIds)] ]

InitTable ==
    /\ InitPanelIdle /\ InitCacheIdle /\ InitFnIdle
    /\ selectedIds = {}
    /\ lastClickedIndexRef = Null
    /\ sorting = "none"
    /\ tableLog = NoTableOp

NextTable ==
    \/ \E rowIndex \in 1..MaxRows, mod \in {"plain", "ctrl", "shift"} :
          RowClick(rowIndex, mod)
    \/ \E rowIndex \in 1..MaxRows : OpenContextMenu(rowIndex)
    \/ ClearSelection
    \/ \E srt \in {"none", "desc"} : SetSorting(srt)

SpecTable == InitTable /\ [][NextTable]_vars

(***************************************************************************)
(* Properties                                                              *)
(***************************************************************************)
EditedFields(es) == {f \in Fields : es[f].kind = "edited"}

\* the calls save() number n has dispatched, in order
CallsOf(cs, n) == SelectSeq(cs, LAMBDA c : c.n = n)

\* this step dispatches the update call of a commit
DispatchesUpdate ==
    /\ Len(calls') = Len(calls) + 1
    /\ calls'[Len(calls')].cmd \in {"updateTrack", "batchUpdateTracks"}

\* this step is the arrival of a result of a commit whose update call failed
FailedCommitStep ==
    lastEvent' # lastEvent /\ lastEvent'.task = "save" /\ lastEvent'.updateFailed

\* C1: the input a commit sends has exactly the keys of the fields that are
\* edited when Save is clicked: one key per field, the number and the total
\* for trackNumber and discNumber, and no key of a uniform or divergent field
C1_PatchKeysIffEdited ==
    [][DispatchesUpdate =>
         Keys(calls'[Len(calls')].arg)
             = UNION {InputKeys(f) : f \in EditedFields(editState)}]_vars

\* a batch update was sent whose input holds the two keys of trackNumber only
C1_Witness ==
    \E i \in 1..Len(calls) :
        /\ calls[i].cmd = "batchUpdateTracks"
        /\ Keys(calls[i].arg) = {"trackNumber", "trackTotal"}

\* C2: an update is dispatched only from a state with an edited field, no
\* commit in flight, no saved acknowledgment showing and both error maps
\* empty; at most one commit is in flight, and saving is set while it is
C2_CommitGate ==
    /\ [](Cardinality(saves) <= 1 /\ (saves # {} => saving))
    /\ [][DispatchesUpdate =>
            /\ hasAnyEdit /\ ~saving /\ ~saved /\ ~hasValidationErrors
            /\ saves = {}]_vars

\* a commit is in flight and the form still holds an edit the user could try
\* to commit: only the saving flag refuses the next click
C2_Witness ==
    /\ saves # {} /\ saving /\ Displayed
    /\ hasAnyEdit /\ ~saved /\ ~hasValidationErrors /\ opsLeft > 0

\* C3, as stated: no step of a commit whose update call failed changes the
\* edit state
C3_FailedCommitKeepsSession ==
    [][FailedCommitStep => editState' = editState]_vars

\* C4, as stated: no step of a commit whose update call failed leaves the
\* saved acknowledgment showing
C4_FailedCommitNotAcknowledged ==
    [][FailedCommitStep => ~saved']_vars

\* C5, as stated: the session the form shows holds records of the current
\* selection only, and the extra tags of its single record
C5_SessionOfCurrentSelection ==
    Displayed =>
        /\ \A i \in 1..Len(tracks) : tracks[i].id \in Range(trackIds)
        /\ extraTags # <<>> => isSingle /\ extraTags = dbExtra[trackIds[1]]

\* C6: in every cache, every key that was requested has exactly one fetch,
\* and every caller that received a value and still listens holds the value
\* that fetch resolved to, which is the value the cache keeps
C6_OneFetchPerKey ==
    \A c \in CacheNames :
        /\ \A p, q \in 1..Len(fetches[c]) :
              fetches[c][p].key = fetches[c][q].key => p = q
        /\ \A i \in 1..Len(callers) :
              callers[i].cache = c =>
                 /\ \E p \in 1..Len(fetches[c]) : fetches[c][p].key = callers[i].key
                 /\ (callers[i].got /\ ~callers[i].cancelled) =>
                       /\ callers[i].key \in Keys(coverCache[c])
                       /\ callers[i].src = MapGet(coverCache[c], callers[i].key)
                       /\ \E p \in 1..Len(fetches[c]) :
                             /\ fetches[c][p].key = callers[i].key
                             /\ fetches[c][p].state = "resolved"
                             /\ fetches[c][p].url = callers[i].src

\* two callers asked for the same key of the same cache, the second while the
\* fetch of the first was in flight, and both received the data
C6_Witness ==
    /\ Len(callers) = 2
    /\ callers[1].cache = callers[2].cache /\ callers[1].key = callers[2].key
    /\ callers[1].promise # 0 /\ callers[2].promise = callers[1].promise
    /\ callers[1].got /\ callers[2].got
    /\ callers[1].src # Null /\ callers[2].src = callers[1].src
    /\ Len(fetches[callers[1].cache]) = 1

\* the calls cs of the single-record commit sv: the update of its id first,
\* then at most the extra-tag list of its id, and that one whenever persists
\* holds; never a batch update
SingleDispatch(sv, cs, persists) ==
    /\ Len(cs) \in {1, 2}
    /\ cs[1] = Call(sv, "updateTrack", <<sv.ids[1]>>, sv.input)
    /\ Len(cs) = 2 => cs[2] = Call(sv, "setTrackExtraTags", <<sv.ids[1]>>, sv.extraTags)
    /\ persists => Len(cs) = 2

\* the calls cs of the multi-record commit sv: one batch update with all its
\* ids and its input first, never a single-record call, and every id fetched
\* again before the session is rebuilt (the commit reaches its last phase)
MultiDispatch(sv, cs) ==
    /\ Len(cs) \in {1, 2}
    /\ cs[1] = Call(sv, "batchUpdateTracks", sv.ids, sv.input)
    /\ Len(cs) = 2 => cs[2] = Call(sv, "getTrack", sv.ids, Null)
    /\ sv.phase = "suggest" => Len(cs) = 2

\* the update call of commit sv has returned
UpdateReturned(sv) == sv.phase \in {"extra", "suggest"}

\* C7, amended: a single-record commit dispatches the update of its id and,
\* when that update returns ok, then the extra-tag list of its id, and nothing
\* else when it returns an error; a multi-record commit dispatches one batch
\* update with all ids and the same input, no single-record call, and fetches
\* every id again before the session is rebuilt
C7_DispatchBySelectionSize ==
    \A sv \in saves :
        IF Len(sv.ids) = 1
        THEN /\ SingleDispatch(sv, CallsOf(calls, sv.n),
                               UpdateReturned(sv) /\ ~sv.updateFailed)
             /\ sv.updateFailed => Len(CallsOf(calls, sv.n)) = 1
        ELSE MultiDispatch(sv, CallsOf(calls, sv.n))

\* the update of a single-record commit returned an error and the commit went
\* on to its acknowledgment with the update as its only call
C7_Witness ==
    \E sv \in saves :
        /\ Len(sv.ids) = 1 /\ sv.updateFailed /\ sv.phase = "suggest"
        /\ Len(CallsOf(calls, sv.n)) = 1

\* C7, as stated: a single-record commit whose update has returned has
\* dispatched the extra-tag list of its id
C7_AsStated ==
    \A sv \in saves :
        IF Len(sv.ids) = 1
        THEN SingleDispatch(sv, CallsOf(calls, sv.n), UpdateReturned(sv))
        ELSE MultiDispatch(sv, CallsOf(calls, sv.n))

\* C8: the step of discard() leaves every field at computeField over the
\* loaded records, none of them edited, and both error maps empty
C8_DiscardRestores ==
    [][(lastEvent' # lastEvent /\ lastEvent'.task = "discard") =>
          /\ editState' = [f \in Fields |-> computeField(tracks, f)]
          /\ EditedFields(editState') = {}
          /\ errors' = {} /\ extraTagErrors' = {}]_vars

\* discard() ran on a two-record session: the title is divergent again
C8_Witness ==
    /\ lastEvent.task = "discard" /\ Len(tracks) = 2
    /\ editState # Null /\ editState.title.kind = "divergent"
    /\ EditedFields(editState) = {} /\ errors = {} /\ extraTagErrors = {}

\* C9: the step of a setField(field, value) call leaves the field at
\* edited(value) and every other field as it was
C9_SetFieldYieldsEdited ==
    [][(lastEvent' # lastEvent /\ lastEvent'.task = "edit") =>
          /\ editState # Null /\ editState' # Null
          /\ editState'[lastEvent'.field] = Edited(lastEvent'.value)
          /\ \A g \in Fields \ {lastEvent'.field} : editState'[g] = editState[g]]_vars

\* setField was called with the value every loaded record has for the field:
\* the field is edited all the same
C9_Witness ==
    /\ lastEvent.task = "edit" /\ editState # Null /\ Len(tracks) > 0
    /\ computeField(tracks, lastEvent.field) = Uniform(lastEvent.value)
    /\ editState[lastEvent.field] = Edited(lastEvent.value)

\* the projected values of the records, as buildEditState extracts them
Projected(trks, f) == [i \in 1..Len(trks) |-> Extract(f, trks[i])]

\* C10, as stated: computeField of a non-empty list is uniform(v) exactly
\* when every projected value equals v, otherwise divergent with the
\* projected values in input order, and never edited
C10_UniformIffAllEqual ==
    fnResult # Null =>
        LET vs == Projected(fnTracks, fnField)
        IN  /\ fnResult.kind # "edited"
            /\ IF \A i \in 1..Len(vs) : vs[i] = vs[1]
               THEN fnResult = Uniform(vs[1])
               ELSE fnResult = Divergent(vs)

\* this step is the arrival of the refreshed records of a commit whose update
\* call succeeded: the row updateTrack returned, or the rows fetched again
SuccessfulCommitStep ==
    /\ lastEvent' # lastEvent /\ lastEvent'.task = "save" /\ ~lastEvent'.updateFailed
    /\ \/ lastEvent'.stage = "update" /\ lastEvent'.outcome = "ok"
       \/ lastEvent'.stage = "refetch" /\ lastEvent'.outcome \in {"ok", "partial"}

\* the commit whose result arrives in this step
ArrivingCommit == CHOOSE sv \in saves : sv.n = lastEvent'.n

\* C11: when the refreshed records of a successful commit arrive, the tracks
\* are those records, every field is computeField over them and none is
\* edited; a title the commit wrote to every record is uniform with the
\* written value
C11_RebuiltFromRefreshedRecords ==
    [][SuccessfulCommitStep =>
          /\ tracks' = OkRows(ArrivingCommit.ids,
                              {tracks'[i].id : i \in 1..Len(tracks')}, db')
          /\ editState' = [f \in Fields |-> computeField(tracks', f)]
          /\ EditedFields(editState') = {}
          /\ \A e \in ArrivingCommit.input :
                (e.key = "title" /\ Truthy(e.val)
                     /\ Len(tracks') = Len(ArrivingCommit.ids))
                  => editState'.title = Uniform(e.val)]_vars

\* a batch commit that wrote the title "N" to two records with different
\* titles succeeded: the title is uniform "N"
C11_Witness ==
    /\ lastEvent.task = "save" /\ lastEvent.stage = "refetch"
    /\ ~lastEvent.updateFailed /\ Len(tracks) = 2
    /\ editState # Null /\ editState.title = Uniform(S(<<"N">>))

\* the fields of the form that have a registered validator
ValidatorFields == {"bpm", "year", "trackNumber", "discNumber", "commentLang", "lyricsLang"}

\* C12: no update or batch update is dispatched while an edited field with a
\* registered validator holds a non-empty value the validator rejects, or
\* while a present extra tag with a registered validator holds a non-empty
\* value the validator rejects
C12_NoDispatchOfRejectedValue ==
    [][DispatchesUpdate =>
          /\ \A f \in ValidatorFields :
                (editState[f].kind = "edited" /\ Truthy(editState[f].value))
                  => FIELD_VALIDATORS(f, editState[f].value.v) = NoError
          /\ \A i \in 1..Len(extraTags) :
                (extraTags[i].frame_id \in ValidatorKeys /\ extraTags[i].value # <<>>)
                  => FIELD_VALIDATORS(extraTags[i].frame_id, extraTags[i].value) = NoError]_vars

\* the load of the selection has ended and brought no record: a fetch threw,
\* or getTrack returned an error result for every selected id
LoadFoundNothing == loads = {} /\ lastEvent.task = "load" /\ tracks = <<>>

\* C13: when the record fetch of a load fails or finds no record, the load
\* ends with loading false and "Track not found." rendered instead of the
\* form: no field and no extra tag can be edited, nothing is edited, Save and
\* Discard are not offered, and no step from that state changes the edit
\* state or dispatches a call
C13_FailedLoadIsNotFound ==
    /\ [](LoadFoundNothing =>
            /\ ~loading /\ ~Displayed
            /\ ~CanEdit /\ ~CanEditTags /\ ~hasAnyEdit
            /\ ~(Displayed /\ SaveEnabled)
            /\ calls = <<>>)
    /\ [][LoadFoundNothing => (editState' = editState /\ calls' = calls)]_vars

\* getTrack returned an error result for both selected ids: the load ended
\* with an edit state built over no records, and the form is not rendered
C13_Witness ==
    /\ LoadFoundNothing /\ Len(trackIds) = 2
    /\ lastEvent.stage = "tracks" /\ lastEvent.outcome # "throw"
    /\ editState # Null /\ ~loading

TeardownStep(i) ==
    /\ i \in 1..Len(callers) /\ Len(callers') = Len(callers)
    /\ ~callers[i].cancelled /\ callers'[i].cancelled

\* C15: the cleanup of a caller changes only that caller's cancelled flag
\* (the request, the pending map, the resolved map and the other callers are
\* as before); every resolved request is stored in the resolved map, whoever
\* stopped listening; and every caller still listening whose callback ran
\* holds the resolved value
C15_TeardownLeavesSharedRequest ==
    /\ [][\A i \in 1..MaxCallers + 1 :
            TeardownStep(i) =>
               /\ UNCHANGED <<coverCache, pending, fetches>>
               /\ callers' = [callers EXCEPT ![i].cancelled = TRUE]]_vars
    /\ [](\A c \in CacheNames : \A p \in 1..Len(fetches[c]) :
            fetches[c][p].state = "resolved" =>
               /\ fetches[c][p].key \in Keys(coverCache[c])
               /\ MapGet(coverCache[c], fetches[c][p].key) = fetches[c][p].url)
    /\ [](\A i \in 1..Len(callers) :
            (callers[i].promise # 0 /\ callers[i].got /\ ~callers[i].cancelled)
              => callers[i].src = fetches[callers[i].cache][callers[i].promise].url)

\* two callers shared one request; the first stopped listening before its
\* callback ran and kept its placeholder, the second received the image, and
\* the image is in the resolved map
C15_Witness ==
    /\ Len(callers) = 2
    /\ callers[1].cache = callers[2].cache
    /\ callers[1].promise # 0 /\ callers[2].promise = callers[1].promise
    /\ Len(fetches[callers[1].cache]) = 1
    /\ callers[1].cancelled /\ callers[1].got /\ callers[1].src = Null
    /\ ~callers[2].cancelled /\ callers[2].got /\ callers[2].src # Null
    /\ MapGet(coverCache[callers[1].cache], callers[1].key) = callers[2].src

\* C16, as stated: the artist list written into the patch and read back is
\* the same ordered list, and the empty list is written as the explicit
\* empty string
C16_ArtistRoundTrip ==
    (fnField = "artistNames" /\ fnResult # Null) =>
        /\ fnResult.names = L(fnInput)
        /\ fnInput = <<>> =>
              fnResult.input = {[key |-> "artistName", val |-> S(<<>>)]}

\* the parts of the text around its slashes
SlashParts == Split(fnInput, <<"/">>)

\* C17, as stated: a text the trackNumber/discNumber validator accepts is
\* translated exactly: "N" to number N and total null, "N/Total" to number N
\* and total Total, for all non-negative N and Total
C17_TrackDiscExact ==
    (fnField \in {"trackNumber", "discNumber"} /\ fnResult # Null
        /\ FIELD_VALIDATORS(fnField, fnInput) = NoError) =>
        fnResult = [ num   |-> N(DigitsVal(SlashParts[1])),
                     total |-> IF Len(SlashParts) = 2
                               THEN N(DigitsVal(SlashParts[2])) ELSE Null ]

ClearableTextFields ==
    {"title", "albumTitle", "albumArtist", "composer", "genre", "comment", "lyrics"}

\* C19, as stated: when a text field is edited and empty at the click on
\* Save, the input of the update carries the field's key with the explicit
\* empty string, not null and not an absent key
C19_ClearedTextSendsEmptyString ==
    [][DispatchesUpdate =>
          \A f \in ClearableTextFields :
             (editState[f].kind = "edited" /\ ~Truthy(editState[f].value))
               => /\ f \in Keys(calls'[Len(calls')].arg)
                  /\ MapGet(calls'[Len(calls')].arg, f) = S(<<>>)]_vars

\* C20: no two entries of the extra-tag list have the same frame id
C20_FrameIdsUnique ==
    \A i, j \in 1..Len(extraTags) :
        extraTags[i].frame_id = extraTags[j].frame_id => i = j

\* two frames were added to the one tag the record was loaded with
C20_Witness ==
    /\ Len(extraTags) = 3
    /\ extraTags[1].frame_id = "TKEY"
    /\ Cardinality(FrameIds(extraTags)) = 3
    /\ extraTags[2].value = <<>> /\ extraTags[3].value = <<>>

\* the load started by the latest selection change has just completed, no
\* other load is in flight and no commit was ever started
ReloadCompleted ==
    /\ nLoads > 0 /\ loads = {} /\ nSaves = 0
    /\ lastEvent.task = "load" /\ lastEvent.n = nLoads

\* C21, as stated: when the reload after a selection change completes, no
\* field is edited, the field-error map and the extra-tag-error map are empty
\* and the extra-tag list is the one loaded for the new selection
C21_ReloadReplacesSession ==
    ReloadCompleted =>
        /\ editState # Null /\ EditedFields(editState) = {}
        /\ errors = {} /\ extraTagErrors = {}
        /\ extraTags = IF isSingle THEN dbExtra[trackIds[1]] ELSE <<>>

\* this step computes the session afresh: records arrive in a load, discard()
\* runs, or the records of a commit arrive
RebuildStep ==
    /\ lastEvent' # lastEvent
    /\ \/ lastEvent'.task = "load" /\ lastEvent'.stage = "tracks"
             /\ lastEvent'.outcome # "throw"
       \/ lastEvent'.task = "discard"
       \/ lastEvent'.task = "save" /\ lastEvent'.stage = "update"
             /\ lastEvent'.outcome = "ok"
       \/ lastEvent'.task = "save" /\ lastEvent'.stage = "refetch"
             /\ lastEvent'.outcome # "throw"

\* this step is a call of setField on field f
SetFieldStep(f) ==
    lastEvent' # lastEvent /\ lastEvent'.task = "edit" /\ lastEvent'.field = f

\* C22: a session computed afresh has no edited field; a field becomes
\* edited, or edited with another value, only in a call of setField on it;
\* and an edited field keeps its state and value in every step that is not a
\* setField on it, a discard, or a rebuild of the session from records
C22_EditedOnlyBySetFieldAndSticky ==
    [][/\ RebuildStep => (editState' # Null /\ EditedFields(editState') = {})
       /\ \A f \in Fields :
             /\ (editState' # Null /\ editState'[f].kind = "edited"
                    /\ (editState = Null \/ editState[f] # editState'[f]))
                   => SetFieldStep(f)
             /\ (editState # Null /\ editState[f].kind = "edited"
                    /\ (editState' = Null \/ editState'[f] # editState[f]))
                   => (SetFieldStep(f) \/ RebuildStep)]_vars

\* two fields were edited one after the other: the first is still edited
\* after the setField call on the second
C22_Witness ==
    /\ lastEvent.task = "edit" /\ editState # Null
    /\ Cardinality(EditedFields(editState)) = 2
    /\ editState.title.kind = "edited"
    /\ lastEvent.field # "title"

\* some edited field or present extra tag holds a non-empty value that its
\* registered validator rejects
SomeValueRejected ==
    \/ /\ editState # Null
       /\ \E f \in ValidatorFields :
             /\ editState[f].kind = "edited" /\ Truthy(editState[f].value)
             /\ FIELD_VALIDATORS(f, editState[f].value.v) # NoError
    \/ \E i \in 1..Len(extraTags) :
          /\ extraTags[i].frame_id \in ValidatorKeys /\ extraTags[i].value # <<>>
          /\ FIELD_VALIDATORS(extraTags[i].frame_id, extraTags[i].value) # NoError

\* C27, as stated: within one session hasValidationErrors is true only if
\* some current edited field value or present extra-tag value is non-empty
\* and rejected by its validator
C27_BlockingErrorsAreCurrent ==
    hasValidationErrors => SomeValueRejected

\* C28, as stated: the ids a batch update is dispatched to are the ids of
\* the records the session holds
C28_BatchIdsAreLoadedRecords ==
    [][(DispatchesUpdate /\ calls'[Len(calls')].cmd = "batchUpdateTracks") =>
          Range(calls'[Len(calls')].ids) = {tracks[i].id : i \in 1..Len(tracks)}]_vars

\* this step dispatches setTrackExtraTags
PersistsExtraTags ==
    /\ Len(calls') = Len(calls) + 1
    /\ calls'[Len(calls')].cmd = "setTrackExtraTags"

\* C29, as stated, for a session in which the user does not touch the extra
\* tags: the list a commit persists is the list the backend holds for the
\* record, also when the extra-tag fetch failed at load time
C29_PersistedTagsAreLoadedTags ==
    [][PersistsExtraTags =>
          calls'[Len(calls')].arg = dbExtra[calls'[Len(calls')].ids[1]]]_vars

\* this step is the arrival of the records of a commit: the row updateTrack
\* returned, or the rows fetched again after a batch update
CommitRecordsArrive ==
    /\ lastEvent' # lastEvent /\ lastEvent'.task = "save"
    /\ \/ lastEvent'.stage = "update" /\ lastEvent'.outcome = "ok"
       \/ lastEvent'.stage = "refetch" /\ lastEvent'.outcome # "throw"

\* C30, as stated: the records of a commit that was started for another
\* selection than the current one are not installed as tracks or edit state,
\* and every call of a commit goes to ids that were selected when it started
C30_CommitOfOldSelectionNotInstalled ==
    [][/\ (CommitRecordsArrive /\ ArrivingCommit.ids # trackIds)
            => (tracks' = tracks /\ editState' = editState)
       /\ Len(calls') = Len(calls) + 1 =>
             \E sv \in saves \cup saves' :
                /\ sv.n = calls'[Len(calls')].n
                /\ Range(calls'[Len(calls')].ids) \subseteq Range(sv.ids)]_vars

\* this step ends the last call of a commit whose update succeeded: the
\* extra tags of the record were sent, or the records were fetched again
CommitAcknowledged ==
    /\ lastEvent' # lastEvent /\ lastEvent'.task = "save"
    /\ ~lastEvent'.updateFailed
    /\ lastEvent'.stage \in {"extra", "refetch"} /\ lastEvent'.outcome # "throw"

\* C26: a successful commit sets the saved acknowledgment and schedules its
\* timer; whenever the acknowledgment is set it is cleared again later, and
\* it is set only while a timer that will clear it is pending
C26_SavedIsCleared ==
    /\ [][CommitAcknowledged => (saved' /\ timers' = timers + 1)]_vars
    /\ [](saved => timers > 0)
    /\ saved ~> ~saved

\* a commit succeeded and was acknowledged, its timer fired, and the
\* acknowledgment is cleared
C26_Witness ==
    /\ lastEvent.task = "save" /\ lastEvent.stage = "suggest"
    /\ ~lastEvent.updateFailed /\ db # InitDb
    /\ ~saved /\ timers = 0 /\ saves = {}

\* the place of id in the fetched id list
PlaceOf(id) == CHOOSE i \in 1..Len(fnInput) : fnInput[i] = id

\* C25: whatever the order in which the per-id fetches return, the records
\* the session holds are the records of the ids whose fetch returned ok, each
\* the record of its id, in the order of the selected id list; and the
\* entries of a divergent values list are in that same order
C25_RecordsInSelectionOrder ==
    (fnResult # Null /\ "tracks" \in DOMAIN fnResult) =>
        LET trks == fnResult.tracks
        IN  /\ {trks[k].id : k \in 1..Len(trks)}
                 = {fnInput[i] : i \in {j \in 1..Len(fnInput) : fnTracks[j].status = "ok"}}
            /\ \A k \in 1..Len(trks) : trks[k] = db[trks[k].id]
            /\ \A k, m \in 1..Len(trks) :
                  k < m => PlaceOf(trks[k].id) < PlaceOf(trks[m].id)
            /\ fnResult.state.kind = "divergent" =>
                  fnResult.state.values
                      = [k \in 1..Len(trks) |-> Extract(fnField, trks[k])]

\* the fetch of the second id returned before the fetch of the first, and the
\* title is divergent with the value of the first id first
C25_Witness ==
    /\ fnResult # Null /\ "tracks" \in DOMAIN fnResult
    /\ fnInput = <<2, 1>> /\ fnField = "title"
    /\ fnTracks[1].at = 2 /\ fnTracks[2].at = 1
    /\ fnResult.state = Divergent(<<S(<<"B">>), S(<<"A">>)>>)

\* the ids the editor panel works on: the trackIds prop it is rendered with
\* (TrackEditorPanel reads no other prop for its selection)
RenderedTrackIds ==
    IF RightPanel.kind = "TrackEditorPanel" /\ "trackIds" \in DOMAIN RightPanel.props
    THEN RightPanel.props.trackIds
    ELSE Undefined

\* C23, as stated: while a row is selected the editor panel is rendered for
\* exactly the selected ids, whether one or more; the placeholder is rendered
\* exactly when no row is selected
C23_PanelShowsSelection ==
    /\ (RightPanel.kind = "placeholder") = (selectedIds = {})
    /\ selectedIds # {} =>
          /\ RightPanel.kind = "TrackEditorPanel"
          /\ RenderedTrackIds # Undefined
          /\ Range(RenderedTrackIds) = selectedIds

\* the place of a row in the table as it is shown
RowPlace(id) == CHOOSE i \in 1..MaxRows : sortedRows(sorting)[i] = id

\* the rows shown between two rows, both included
RowsBetween(a, b) ==
    { id \in 1..MaxRows :
        \/ RowPlace(a) <= RowPlace(id) /\ RowPlace(id) <= RowPlace(b)
        \/ RowPlace(b) <= RowPlace(id) /\ RowPlace(id) <= RowPlace(a) }

\* C24, as stated: a plain click selects exactly the clicked row; a click
\* with ctrl toggles the clicked row only; a click with shift adds the rows
\* between the row last clicked plainly or with ctrl and the clicked row;
\* the clear button empties the selection
C24_ClickSelection ==
    [][tableLog' # tableLog =>
          /\ tableLog'.op = "plain" => selectedIds' = {tableLog'.row}
          /\ tableLog'.op = "ctrl" =>
                /\ (tableLog'.row \in selectedIds') = (tableLog'.row \notin selectedIds)
                /\ selectedIds' \ {tableLog'.row} = selectedIds \ {tableLog'.row}
          /\ (tableLog'.op = "shift" /\ tableLog.anchor # 0) =>
                selectedIds' = selectedIds \cup RowsBetween(tableLog.anchor, tableLog'.row)
          /\ tableLog'.op = "clear" => selectedIds' = {}]_vars

====
